---- MODULE Spec2Model ----
(***************************************************************************)
(* A model of the toon_py codec (src/toon_py): the primitive codec, the    *)
(* structural encoder and the structural decoder, as operators over        *)
(* strings, and the callers of encode/decode as state machines.            *)
(*                                                                         *)
(* A string is a sequence of one-character strings, 1-based.  Where the    *)
(* code uses a 0-based index or -1 for "not found", the model uses the     *)
(* 1-based index and 0 for "not found".                                    *)
(*                                                                         *)
(* A canonical value is a record [t, v]:                                   *)
(*   [t |-> "null",  v |-> <<>>]         None                              *)
(*   [t |-> "bool",  v |-> TRUE]         bool                              *)
(*   [t |-> "int",   v |-> 12]           int                               *)
(*   [t |-> "float", v |-> <<m, e>>]     float m * 10^e, m without         *)
(*                                       trailing zeros (0.0 is <<0, 0>>)  *)
(*   [t |-> "str",   v |-> <<"a","b">>]  str                               *)
(*   [t |-> "arr",   v |-> <<v1, ...>>]  list                              *)
(*   [t |-> "obj",   v |-> << <<k1, v1>>, ... >>]  dict, in insertion      *)
(*                                       order, keys unique                *)
(* The result of an operation that can raise is [ok |-> TRUE, val |-> x]   *)
(* or [ok |-> FALSE, err |-> "<the exception>"].                           *)
(***************************************************************************)
EXTENDS Integers, Sequences, FiniteSets, TLC

VARIABLES
    pc,      \* the caller's position: "start", "encoded", "decoded"
    input,   \* the value (or the description of the document) handed in
    opts,    \* the options of the call
    text,    \* the text produced by the encoder / handed to the decoder
    output   \* the result of the last call

vars == <<pc, input, opts, text, output>>

----------------------------------------------------------------------------
(* constants.py *)

LIST_ITEM_MARKER == <<"-">>
LIST_ITEM_PREFIX == <<"-", " ">>
COMMA == ","
COLON == ":"
PIPE == "|"
HASH == "#"
OPEN_BRACKET == "["
CLOSE_BRACKET == "]"
OPEN_BRACE == "{"
CLOSE_BRACE == "}"
NULL_LITERAL == <<"n", "u", "l", "l">>
TRUE_LITERAL == <<"t", "r", "u", "e">>
FALSE_LITERAL == <<"f", "a", "l", "s", "e">>
BACKSLASH == "\\"
DOUBLE_QUOTE == "\""
NEWLINE == "\n"
CARRIAGE_RETURN == "\r"
TAB == "\t"
DELIMITERS == {COMMA, TAB, PIPE}
DEFAULT_DELIMITER == COMMA

----------------------------------------------------------------------------
(* Python's str and int built-ins, as far as the codec uses them. *)

AsciiDigits == {"0", "1", "2", "3", "4", "5", "6", "7", "8", "9"}
AsciiLetters ==
    {"a", "b", "c", "d", "e", "f", "g", "h", "i", "j", "k", "l", "m",
     "n", "o", "p", "q", "r", "s", "t", "u", "v", "w", "x", "y", "z",
     "A", "B", "C", "D", "E", "F", "G", "H", "I", "J", "K", "L", "M",
     "N", "O", "P", "Q", "R", "S", "T", "U", "V", "W", "X", "Y", "Z"}
\* str.strip() removes these (and further Unicode white space).
Whitespace == {" ", "\t", "\n", "\r"}

ErrorResult(e) == [ok |-> FALSE, err |-> e]
OkResult(x) == [ok |-> TRUE, val |-> x]

Max(a, b) == IF a >= b THEN a ELSE b

\* s[i:] with a 1-based i
From(s, i) == SubSeq(s, i, Len(s))

\* c in s
Contains(s, c) == \E i \in 1..Len(s) : s[i] = c

\* s.find(c, start): the first index >= start holding c, 0 when there is none
Find(s, c, start) ==
    IF \E i \in start..Len(s) : s[i] = c
    THEN CHOOSE i \in start..Len(s) :
            s[i] = c /\ \A j \in start..(i - 1) : s[j] # c
    ELSE 0

StartsWith(s, p) == Len(s) >= Len(p) /\ SubSeq(s, 1, Len(p)) = p
EndsWith(s, c) == Len(s) >= 1 /\ s[Len(s)] = c

RECURSIVE LStrip(_)
LStrip(s) ==
    IF s # <<>> /\ s[1] \in Whitespace THEN LStrip(Tail(s)) ELSE s

RECURSIVE RStrip(_)
RStrip(s) ==
    IF s # <<>> /\ s[Len(s)] \in Whitespace
    THEN RStrip(SubSeq(s, 1, Len(s) - 1))
    ELSE s

Strip(s) == LStrip(RStrip(s))

\* d.join(parts) for a string d
RECURSIVE Join(_, _)
Join(parts, d) ==
    IF parts = <<>> THEN <<>>
    ELSE IF Len(parts) = 1 THEN parts[1]
    ELSE parts[1] \o d \o Join(Tail(parts), d)

\* s.split(c)
RECURSIVE Split(_, _)
Split(s, c) ==
    LET i == Find(s, c, 1)
    IN IF i = 0 THEN <<s>>
       ELSE <<SubSeq(s, 1, i - 1)>> \o Split(From(s, i + 1), c)

\* the ASCII digits in order: DigitSeq[d + 1] is the digit of value d
DigitSeq == <<"0", "1", "2", "3", "4", "5", "6", "7", "8", "9">>

RECURSIVE NatToStr(_)
NatToStr(n) ==
    IF n < 10 THEN <<DigitSeq[n + 1]>>
    ELSE NatToStr(n \div 10) \o <<DigitSeq[(n % 10) + 1]>>

\* str(n) for an int
IntToStr(n) == IF n < 0 THEN <<"-">> \o NatToStr(-n) ELSE NatToStr(n)

\* the value of a string of ASCII digits
RECURSIVE DigitsToNat(_)
DigitsToNat(s) ==
    IF s = <<>> THEN 0
    ELSE 10 * DigitsToNat(SubSeq(s, 1, Len(s) - 1))
         + (CHOOSE d \in 0..9 : DigitSeq[d + 1] = s[Len(s)])

AllDigits(s) == \A i \in 1..Len(s) : s[i] \in AsciiDigits

\* s with every "_" removed
RECURSIVE DropUnderscores(_)
DropUnderscores(s) ==
    IF s = <<>> THEN <<>>
    ELSE IF s[1] = "_" THEN DropUnderscores(Tail(s))
    ELSE <<s[1]>> \o DropUnderscores(Tail(s))

\* Python's digitpart: digits, single underscores allowed between two digits
IsDigitPart(s) ==
    /\ s # <<>>
    /\ \A i \in 1..Len(s) : s[i] \in AsciiDigits \cup {"_"}
    /\ s[1] # "_" /\ s[Len(s)] # "_"
    /\ \A i \in 1..(Len(s) - 1) : ~(s[i] = "_" /\ s[i + 1] = "_")

\* str.lower(), for the letters of "infinity", "nan" and the exponent mark
LowerStr(s) ==
    LET Lower(c) ==
            CASE c = "I" -> "i" [] c = "N" -> "n" [] c = "F" -> "f" [] c = "A" -> "a"
              [] c = "T" -> "t" [] c = "Y" -> "y" [] c = "E" -> "e"
              [] OTHER -> c
    IN [i \in 1..Len(s) |-> Lower(s[i])]

\* s without its leading sign
Unsigned(s) == IF s # <<>> /\ s[1] \in {"+", "-"} THEN Tail(s) ELSE s

\* the mantissa and the exponent part of a float literal's body
MantissaPart(s) ==
    LET l == LowerStr(s)
        i == Find(l, "e", 1)
    IN IF i = 0 THEN s ELSE SubSeq(s, 1, i - 1)
ExponentPart(s) ==
    LET l == LowerStr(s)
        i == Find(l, "e", 1)
    IN IF i = 0 THEN <<>> ELSE From(s, i + 1)
HasExponent(s) == Contains(LowerStr(s), "e")

IsPointFloat(m) ==
    LET Parts(ip, fp) ==
            /\ (ip = <<>> \/ IsDigitPart(ip))
            /\ (fp = <<>> \/ IsDigitPart(fp))
            /\ ~(ip = <<>> /\ fp = <<>>)
        Point(i) ==
            IF i = 0 THEN IsDigitPart(m)
            ELSE Parts(SubSeq(m, 1, i - 1), From(m, i + 1))
    IN Point(Find(m, ".", 1))

IsInfinityWord(s) ==
    LowerStr(s) \in {<<"i", "n", "f">>, <<"i", "n", "f", "i", "n", "i", "t", "y">>}
IsNanWord(s) == LowerStr(s) = <<"n", "a", "n">>

\* float(s) does not raise, for a stripped s
PyFloatAccepts(s) ==
    LET Accepts(u) ==
            \/ IsInfinityWord(u)
            \/ IsNanWord(u)
            \/ /\ IsPointFloat(MantissaPart(u))
               /\ HasExponent(u) => IsDigitPart(Unsigned(ExponentPart(u)))
    IN Accepts(Unsigned(s))

\* int(s) does not raise, for a stripped s
PyIntAccepts(s) == IsDigitPart(Unsigned(s))

\* int(s) where PyIntAccepts(s)
PyInt(s) ==
    LET n == DigitsToNat(DropUnderscores(Unsigned(s)))
    IN IF s[1] = "-" THEN -n ELSE n

RECURSIVE NormFloat(_, _)
NormFloat(m, e) ==
    IF m = 0 THEN <<0, 0>>
    ELSE IF m % 10 = 0 THEN NormFloat(m \div 10, e + 1)
    ELSE <<m, e>>

\* float(s) where PyFloatAccepts(s) and s is a finite number: <<m, e>>
PyFloat(s) ==
    LET Parts(u, mant) ==
            LET i == Find(mant, ".", 1)
                ip == IF i = 0 THEN mant ELSE SubSeq(mant, 1, i - 1)
                fd == DropUnderscores(IF i = 0 THEN <<>> ELSE From(mant, i + 1))
                m == DigitsToNat(DropUnderscores(ip) \o fd)
                ex == IF HasExponent(u) THEN PyInt(ExponentPart(u)) ELSE 0
            IN NormFloat(IF s[1] = "-" THEN -m ELSE m, ex - Len(fd))
    IN Parts(Unsigned(s), MantissaPart(Unsigned(s)))

RECURSIVE Zeros(_)
Zeros(n) == IF n <= 0 THEN <<>> ELSE <<"0">> \o Zeros(n - 1)

\* str(x) for a finite float x = m * 10^e with 1e-4 <= |x| < 1e16 or x = 0
\* (Python switches to the exponent form outside that range)
FloatToStr(m, e) ==
    LET sign == IF m < 0 THEN <<"-">> ELSE <<>>
        ds == NatToStr(IF m < 0 THEN -m ELSE m)
    IN IF e >= 0 THEN sign \o ds \o Zeros(e) \o <<".", "0">>
       ELSE LET padded == Zeros(1 - e - Len(ds)) \o ds
                cut == Len(padded) + e
            IN sign \o SubSeq(padded, 1, cut) \o <<".">> \o From(padded, cut + 1)

----------------------------------------------------------------------------
(* primitives.py *)

\* value.replace(c, rep), rep a string
RECURSIVE Replace(_, _, _)
Replace(s, c, rep) ==
    IF s = <<>> THEN <<>>
    ELSE (IF s[1] = c THEN rep ELSE <<s[1]>>) \o Replace(Tail(s), c, rep)

\* escape_string with the double quote replaced before the backslash
escape_string_QuoteFirst(value) ==
    LET e1 == Replace(value, DOUBLE_QUOTE, <<BACKSLASH, DOUBLE_QUOTE>>)
        e2 == Replace(e1, BACKSLASH, <<BACKSLASH, BACKSLASH>>)
        e3 == Replace(e2, NEWLINE, <<BACKSLASH, "n">>)
    IN Replace(e3, CARRIAGE_RETURN, <<BACKSLASH, "r">>)

\* ESCAPE_SEQUENCES is applied in its insertion order: backslash first
escape_string(value) ==
    LET e1 == Replace(value, BACKSLASH, <<BACKSLASH, BACKSLASH>>)
        e2 == Replace(e1, DOUBLE_QUOTE, <<BACKSLASH, DOUBLE_QUOTE>>)
        e3 == Replace(e2, NEWLINE, <<BACKSLASH, "n">>)
    IN Replace(e3, CARRIAGE_RETURN, <<BACKSLASH, "r">>)

NonEmptyDigits(s) == s # <<>> /\ AllDigits(s)

\* re.fullmatch(r'-?\d+(?:\.\d+)?(?:e[+-]?\d+)?', value, re.IGNORECASE)
\*   or re.fullmatch(r'0\d+', value)
is_numeric_like(value) ==
    LET u == IF value # <<>> /\ value[1] = "-" THEN Tail(value) ELSE value
        mant == MantissaPart(u)
        i == Find(mant, ".", 1)
        first ==
            /\ IF i = 0 THEN NonEmptyDigits(mant)
               ELSE /\ NonEmptyDigits(SubSeq(mant, 1, i - 1))
                    /\ NonEmptyDigits(From(mant, i + 1))
            /\ HasExponent(u) => NonEmptyDigits(Unsigned(ExponentPart(u)))
        second == Len(value) >= 2 /\ value[1] = "0" /\ AllDigits(Tail(value))
    IN first \/ second

\* is_safe_unquoted without the test for a pipe under a delimiter other than pipe
is_safe_unquoted_PipeFree(value, delimiter) ==
    /\ value # <<>>
    /\ value = Strip(value)
    /\ value \notin {TRUE_LITERAL, FALSE_LITERAL, NULL_LITERAL}
    /\ ~is_numeric_like(value)
    /\ ~(Contains(value, ":") \/ Contains(value, DOUBLE_QUOTE) \/ Contains(value, BACKSLASH))
    /\ ~(\E c \in {"[", "]", "{", "}"} : Contains(value, c))
    /\ ~(\E c \in {NEWLINE, CARRIAGE_RETURN, TAB} : Contains(value, c))
    /\ (delimiter # PIPE => ~Contains(value, delimiter))
    /\ ~StartsWith(value, LIST_ITEM_MARKER)

is_safe_unquoted(value, delimiter) ==
    /\ value # <<>>
    /\ value = Strip(value)
    /\ value \notin {TRUE_LITERAL, FALSE_LITERAL, NULL_LITERAL}
    /\ ~is_numeric_like(value)
    /\ ~(Contains(value, ":") \/ Contains(value, DOUBLE_QUOTE) \/ Contains(value, BACKSLASH))
    /\ ~(\E c \in {"[", "]", "{", "}"} : Contains(value, c))
    /\ ~(\E c \in {NEWLINE, CARRIAGE_RETURN, TAB} : Contains(value, c))
    /\ (delimiter # PIPE => ~Contains(value, delimiter) /\ ~Contains(value, PIPE))
    /\ ~StartsWith(value, LIST_ITEM_MARKER)

encode_string_literal(value, delimiter) ==
    IF is_safe_unquoted(value, delimiter) THEN value
    ELSE <<DOUBLE_QUOTE>> \o escape_string(value) \o <<DOUBLE_QUOTE>>

\* value is a canonical primitive
encode_primitive(value, delimiter) ==
    CASE value.t = "null" -> NULL_LITERAL
      [] value.t = "bool" -> (IF value.v THEN TRUE_LITERAL ELSE FALSE_LITERAL)
      [] value.t = "int" -> IntToStr(value.v)
      [] value.t = "float" -> FloatToStr(value.v[1], value.v[2])
      [] value.t = "str" -> encode_string_literal(value.v, delimiter)

\* \w of a str pattern: letters and digits, ASCII or not, and the underscore;
\* "é" stands for the letters outside ASCII
WordChars == AsciiLetters \cup AsciiDigits \cup {"_", "é"}

\* re.fullmatch(r'[A-Za-z_][\w.]*', key)
IsBareKey(key) ==
    /\ key # <<>>
    /\ key[1] \in AsciiLetters \cup {"_"}
    /\ \A i \in 2..Len(key) : key[i] \in WordChars \cup {"."}

encode_key(key) ==
    IF IsBareKey(key) THEN key
    ELSE <<DOUBLE_QUOTE>> \o escape_string(key) \o <<DOUBLE_QUOTE>>

\* values is a sequence of canonical primitives
encode_and_join_primitives(values, delimiter) ==
    Join([i \in 1..Len(values) |-> encode_primitive(values[i], delimiter)], <<delimiter>>)

\* key = <<>> stands for key=None, a key is passed as <<k>>; fields likewise;
\* length_marker is "#", or "" for False
format_header(length, key, fields, delimiter, length_marker) ==
    LET k == IF key = <<>> THEN <<>> ELSE encode_key(key[1])
        marker == IF length_marker = "" THEN <<>> ELSE <<length_marker>>
        suffix == IF delimiter # DEFAULT_DELIMITER THEN <<delimiter>> ELSE <<>>
        fs == IF fields = <<>> \/ fields[1] = <<>> THEN <<>>
              ELSE <<"{">>
                   \o Join([i \in 1..Len(fields[1]) |-> encode_key(fields[1][i])], <<delimiter>>)
                   \o <<"}">>
    IN k \o <<"[">> \o marker \o NatToStr(length) \o suffix \o <<"]">> \o fs \o <<":">>

----------------------------------------------------------------------------
(* parser.py: tokens *)

\* the loop of unescape_string from index i, result accumulated in acc
RECURSIVE UnescapeFrom(_, _, _)
UnescapeFrom(value, i, acc) ==
    IF i > Len(value) THEN OkResult(acc)
    ELSE IF value[i] = BACKSLASH
    THEN IF i + 1 > Len(value)
         THEN ErrorResult("ValueError: Invalid escape sequence at end of string")
         ELSE LET nxt == value[i + 1]
              IN CASE nxt = "n" -> UnescapeFrom(value, i + 2, Append(acc, NEWLINE))
                   [] nxt = "t" -> UnescapeFrom(value, i + 2, Append(acc, TAB))
                   [] nxt = "r" -> UnescapeFrom(value, i + 2, Append(acc, CARRIAGE_RETURN))
                   [] nxt = BACKSLASH -> UnescapeFrom(value, i + 2, Append(acc, BACKSLASH))
                   [] nxt = DOUBLE_QUOTE -> UnescapeFrom(value, i + 2, Append(acc, DOUBLE_QUOTE))
                   [] OTHER -> ErrorResult("ValueError: Invalid escape sequence")
    ELSE UnescapeFrom(value, i + 1, Append(acc, value[i]))

unescape_string(value) == UnescapeFrom(value, 1, <<>>)

\* the loop of parse_string_literal from index i (1-based; the code starts at
\* its index 1, the character after the opening quote)
RECURSIVE StringLiteralFrom(_, _, _)
StringLiteralFrom(trimmed, i, content) ==
    IF i > Len(trimmed)
    THEN ErrorResult("ValueError: Unterminated string: missing closing quote")
    ELSE IF trimmed[i] = BACKSLASH /\ i + 1 <= Len(trimmed)
    THEN StringLiteralFrom(trimmed, i + 2, content \o <<trimmed[i], trimmed[i + 1]>>)
    ELSE IF trimmed[i] = DOUBLE_QUOTE
    THEN IF i # Len(trimmed)
         THEN ErrorResult("ValueError: Unexpected characters after closing quote")
         ELSE unescape_string(content)
    ELSE StringLiteralFrom(trimmed, i + 1, Append(content, trimmed[i]))

parse_string_literal(token) ==
    LET trimmed == Strip(token)
    IN IF ~StartsWith(trimmed, <<DOUBLE_QUOTE>>) THEN OkResult(trimmed)
       ELSE StringLiteralFrom(trimmed, 2, <<>>)

is_boolean_or_null_literal(token) ==
    token \in {TRUE_LITERAL, FALSE_LITERAL, NULL_LITERAL}

\* float(token) succeeds and is not NaN, unless the token has a leading zero
is_numeric_literal(token) ==
    /\ token # <<>>
    /\ ~(Len(token) > 1 /\ token[1] = "0" /\ token[2] # ".")
    /\ PyFloatAccepts(token)
    /\ ~IsNanWord(Unsigned(token))

\* the result's val is a canonical primitive
parse_primitive_token(token) ==
    LET Quoted(r) == IF r.ok THEN OkResult([t |-> "str", v |-> r.val]) ELSE r
        Parse(trimmed) ==
            IF trimmed = <<>> THEN OkResult([t |-> "str", v |-> <<>>])
            ELSE IF StartsWith(trimmed, <<DOUBLE_QUOTE>>)
            THEN Quoted(parse_string_literal(trimmed))
            ELSE IF is_boolean_or_null_literal(trimmed)
            THEN IF trimmed = TRUE_LITERAL THEN OkResult([t |-> "bool", v |-> TRUE])
                 ELSE IF trimmed = FALSE_LITERAL THEN OkResult([t |-> "bool", v |-> FALSE])
                 ELSE OkResult([t |-> "null", v |-> <<>>])
            ELSE IF is_numeric_literal(trimmed)
            THEN IF \E c \in {".", "e", "E"} : Contains(trimmed, c)
                 THEN OkResult([t |-> "float", v |-> PyFloat(trimmed)])
                 ELSE IF PyIntAccepts(trimmed)
                      THEN OkResult([t |-> "int", v |-> PyInt(trimmed)])
                      ELSE ErrorResult("ValueError: invalid literal for int() with base 10")
            ELSE OkResult([t |-> "str", v |-> trimmed])
    IN Parse(Strip(token))

\* the loop of parse_delimited_values from index i
RECURSIVE DelimitedFrom(_, _, _, _, _, _)
DelimitedFrom(input_text, delimiter, i, current, in_quotes, values) ==
    IF i > Len(input_text)
    THEN IF current # <<>> \/ values # <<>>
         THEN Append(values, Strip(current))
         ELSE values
    ELSE LET char == input_text[i]
         IN IF char = BACKSLASH /\ i + 1 <= Len(input_text) /\ in_quotes
            THEN DelimitedFrom(input_text, delimiter, i + 2,
                               current \o <<char, input_text[i + 1]>>, in_quotes, values)
            ELSE IF char = DOUBLE_QUOTE
            THEN DelimitedFrom(input_text, delimiter, i + 1,
                               Append(current, char), ~in_quotes, values)
            ELSE IF char = delimiter /\ ~in_quotes
            THEN DelimitedFrom(input_text, delimiter, i + 1,
                               <<>>, in_quotes, Append(values, Strip(current)))
            ELSE DelimitedFrom(input_text, delimiter, i + 1,
                               Append(current, char), in_quotes, values)

parse_delimited_values(input_text, delimiter) ==
    DelimitedFrom(input_text, delimiter, 1, <<>>, FALSE, <<>>)

\* the first index at which a result of `results` failed, 0 when none did
FirstError(results) ==
    IF \E i \in 1..Len(results) : ~results[i].ok
    THEN CHOOSE i \in 1..Len(results) :
            ~results[i].ok /\ \A j \in 1..(i - 1) : results[j].ok
    ELSE 0

\* a list comprehension over calls that can raise: the first exception, or
\* the list of the values
Collect(results) ==
    LET Raised(first) ==
            IF first # 0 THEN results[first]
            ELSE OkResult([i \in 1..Len(results) |-> results[i].val])
    IN Raised(FirstError(results))

map_row_values_to_primitives(values) ==
    Collect([i \in 1..Len(values) |-> parse_primitive_token(values[i])])

----------------------------------------------------------------------------
(* parser.py: array headers and keys *)

\* parse_bracket_segment that leaves the length marker in the length
parse_bracket_segment_KeepMarker(segment, default_delimiter) ==
    LET Segment(delimiter, content) ==
            IF content = <<>> \/ ~AllDigits(content)
            THEN ErrorResult("ValueError: Invalid array length")
            ELSE OkResult([length |-> DigitsToNat(content),
                           delimiter |-> delimiter,
                           hasLengthMarker |-> FALSE])
    IN IF EndsWith(segment, TAB)
       THEN Segment(TAB, SubSeq(segment, 1, Len(segment) - 1))
       ELSE IF EndsWith(segment, PIPE)
       THEN Segment(PIPE, SubSeq(segment, 1, Len(segment) - 1))
       ELSE Segment(default_delimiter, segment)

\* (length, delimiter, has_length_marker), or ValueError
parse_bracket_segment(segment, default_delimiter) ==
    LET has_length_marker == StartsWith(segment, <<HASH>>)
        Segment(delimiter, content) ==
            IF content = <<>> \/ ~AllDigits(content)
            THEN ErrorResult("ValueError: Invalid array length")
            ELSE OkResult([length |-> DigitsToNat(content),
                           delimiter |-> delimiter,
                           hasLengthMarker |-> has_length_marker])
        Suffix(c1) ==
            IF EndsWith(c1, TAB) THEN Segment(TAB, SubSeq(c1, 1, Len(c1) - 1))
            ELSE IF EndsWith(c1, PIPE) THEN Segment(PIPE, SubSeq(c1, 1, Len(c1) - 1))
            ELSE Segment(default_delimiter, c1)
    IN Suffix(IF has_length_marker THEN Tail(segment) ELSE segment)

parse_fields_segment(segment, delimiter) ==
    LET cells == parse_delimited_values(segment, delimiter)
    IN Collect([i \in 1..Len(cells) |-> parse_string_literal(Strip(cells[i]))])

\* The value returned when the line is no array header.
NoHeader == [found |-> FALSE]

\* OkResult(NoHeader) for None; OkResult of the header, with found = TRUE, key
\* and fields and inlineValues <<>> for None and <<x>> for x; or the exception.
parse_array_header_line(content, default_delimiter) ==
    LET Header(key_segment, after_colon, seg, has_fields, fields, key) ==
            IF ~fields.ok THEN fields
            ELSE IF ~key.ok THEN key
            ELSE OkResult([found |-> TRUE,
                           key |-> IF key_segment = <<>> THEN <<>> ELSE <<key.val>>,
                           length |-> seg.val.length,
                           delimiter |-> seg.val.delimiter,
                           fields |-> IF has_fields THEN <<fields.val>> ELSE <<>>,
                           hasLengthMarker |-> seg.val.hasLengthMarker,
                           inlineValues |->
                               IF after_colon = <<>> THEN <<>> ELSE <<after_colon>>])
        Segments(brace_start, found_brace_end, colon_index, key_segment, seg) ==
            IF ~seg.ok THEN OkResult(NoHeader)
            ELSE LET has_fields ==
                         /\ brace_start # 0 /\ brace_start < colon_index
                         /\ found_brace_end # 0 /\ found_brace_end < colon_index
                 IN Header(key_segment, Strip(From(content, colon_index + 1)), seg,
                           has_fields,
                           IF has_fields
                           THEN parse_fields_segment(
                                    SubSeq(content, brace_start + 1, found_brace_end - 1),
                                    seg.val.delimiter)
                           ELSE OkResult(<<>>),
                           IF key_segment # <<>> /\ StartsWith(key_segment, <<DOUBLE_QUOTE>>)
                           THEN parse_string_literal(key_segment)
                           ELSE OkResult(key_segment))
        Colon(bracket_start, bracket_end, brace_start, found_brace_end, colon_index) ==
            IF colon_index = 0 THEN OkResult(NoHeader)
            ELSE Segments(brace_start, found_brace_end, colon_index,
                          Strip(SubSeq(content, 1, bracket_start - 1)),
                          parse_bracket_segment(
                              SubSeq(content, bracket_start + 1, bracket_end - 1),
                              default_delimiter))
        Braces(bracket_start, bracket_end, brace_start, colon_after_bracket,
               found_brace_end) ==
            LET brace_end ==
                    IF /\ brace_start # 0
                       /\ colon_after_bracket # 0 /\ brace_start < colon_after_bracket
                       /\ found_brace_end # 0
                    THEN found_brace_end + 1
                    ELSE bracket_end + 1
            IN Colon(bracket_start, bracket_end, brace_start, found_brace_end,
                     Find(content, COLON, Max(bracket_end, brace_end)))
        BraceStart(bracket_start, bracket_end, brace_start) ==
            Braces(bracket_start, bracket_end, brace_start,
                   Find(content, COLON, bracket_end),
                   IF brace_start # 0 THEN Find(content, CLOSE_BRACE, brace_start) ELSE 0)
        BracketEnd(bracket_start, bracket_end) ==
            IF bracket_end = 0 THEN OkResult(NoHeader)
            ELSE BraceStart(bracket_start, bracket_end,
                            Find(content, OPEN_BRACE, bracket_end))
        BracketStart(bracket_start) ==
            IF bracket_start = 0 THEN OkResult(NoHeader)
            ELSE BracketEnd(bracket_start, Find(content, CLOSE_BRACKET, bracket_start))
    IN IF StartsWith(LStrip(content), <<DOUBLE_QUOTE>>) THEN OkResult(NoHeader)
       ELSE BracketStart(Find(content, OPEN_BRACKET, 1))

\* start is 1-based; the result is [key, end], end the 1-based index of the
\* first character after the colon
parse_unquoted_key(content, start) ==
    LET end == Find(content, COLON, start)
    IN IF end = 0 THEN ErrorResult("ValueError: Missing colon after key")
       ELSE OkResult([key |-> Strip(SubSeq(content, start, end - 1)), end |-> end + 1])

RECURSIVE QuotedKeyFrom(_, _, _)
QuotedKeyFrom(content, i, key_content) ==
    IF i > Len(content) THEN ErrorResult("ValueError: Unterminated quoted key")
    ELSE IF content[i] = BACKSLASH /\ i + 1 <= Len(content)
    THEN QuotedKeyFrom(content, i + 2, key_content \o <<content[i], content[i + 1]>>)
    ELSE IF content[i] = DOUBLE_QUOTE
    THEN IF i + 1 > Len(content) \/ content[i + 1] # COLON
         THEN ErrorResult("ValueError: Missing colon after key")
         ELSE LET parsed == unescape_string(key_content)
              IN IF parsed.ok THEN OkResult([key |-> parsed.val, end |-> i + 2])
                 ELSE parsed
    ELSE QuotedKeyFrom(content, i + 1, Append(key_content, content[i]))

parse_quoted_key(content, start) == QuotedKeyFrom(content, start + 1, <<>>)

parse_key_token(content, start) ==
    IF start > Len(content) THEN ErrorResult("ValueError: Missing key")
    ELSE IF content[start] = DOUBLE_QUOTE THEN parse_quoted_key(content, start)
    ELSE parse_unquoted_key(content, start)

is_array_header_after_hyphen(content) ==
    LET stripped == Strip(content)
    IN StartsWith(stripped, <<OPEN_BRACKET>>) /\ Contains(stripped, COLON)

is_object_first_field_after_hyphen(content) == Contains(content, COLON)

----------------------------------------------------------------------------
(* scanner.py *)

\* A ParsedLine without its raw text, which nothing reads.
ParsedLine(raw_line, indent_size) ==
    LET content == LStrip(raw_line)
        indent == Len(raw_line) - Len(content)
    IN [depth |-> indent \div indent_size, indent |-> indent, content |-> content]

RECURSIVE ParseRawLines(_, _)
ParseRawLines(raw_lines, indent_size) ==
    IF raw_lines = <<>> THEN <<>>
    ELSE IF Strip(raw_lines[1]) = <<>> THEN ParseRawLines(Tail(raw_lines), indent_size)
    ELSE <<ParsedLine(raw_lines[1], indent_size)>>
         \o ParseRawLines(Tail(raw_lines), indent_size)

to_parsed_lines(input_text, indent_size) ==
    ParseRawLines(Split(input_text, NEWLINE), indent_size)

\* an advance() that never moves
advance_Stuck(lines, index) == index

\* an advance() that moves past the last line
advance_Unguarded(lines, index) == index + 1

\* LineCursor over `lines` with the code's 0-based index
at_end(lines, index) == index >= Len(lines)
peek(lines, index) == lines[index + 1]
\* advance() returns the line at index and moves to
advance(lines, index) == IF index >= Len(lines) THEN index ELSE index + 1

----------------------------------------------------------------------------
(* decoders.py.  Every decoder takes the cursor as (lines, index) and returns *)
(* Cur(value, index'), index' the cursor's index when it returns, or the      *)
(* exception it raises.  options is [indent, strict].                         *)

Cur(x, index) == [ok |-> TRUE, val |-> x, index |-> index]

EmptyObject == [t |-> "obj", v |-> <<>>]

\* obj[key] = value on a dict held as a sequence of <<key, value>>
DictSet(pairs, key, value) ==
    IF \E i \in 1..Len(pairs) : pairs[i][1] = key
    THEN [i \in 1..Len(pairs) |->
            IF pairs[i][1] = key THEN <<key, value>> ELSE pairs[i]]
    ELSE Append(pairs, <<key, value>>)

\* assert_expected_count that raises in non-strict mode only
assert_expected_count_LaxOnly(actual, expected, options) ==
    ~(~options.strict /\ actual # expected)

\* assert_expected_count that never raises
assert_expected_count_NoRaise(actual, expected, options) == TRUE

\* TRUE when assert_expected_count returns, FALSE when it raises
assert_expected_count(actual, expected, options) ==
    ~(options.strict /\ actual # expected)

RECURSIVE KeyValueLineFrom(_, _)
KeyValueLineFrom(content, i) ==
    IF i > Len(content) THEN FALSE
    ELSE IF content[i] = BACKSLASH /\ i + 1 <= Len(content)
    THEN KeyValueLineFrom(content, i + 2)
    ELSE IF content[i] = DOUBLE_QUOTE
    THEN i + 1 <= Len(content) /\ content[i + 1] = COLON
    ELSE KeyValueLineFrom(content, i + 1)

is_key_value_line(line) ==
    IF StartsWith(line.content, <<DOUBLE_QUOTE>>)
    THEN KeyValueLineFrom(line.content, 2)
    ELSE Contains(line.content, COLON)

\* a dispatch that never takes the first line for a root array header
is_root_array_header_line_Never(line) == FALSE

is_root_array_header_line(line) == is_array_header_after_hyphen(line.content)

\* coalescing that only ever merges the surplus into the last token
coalesce_inline_values_TailOnly(values, expected, delimiter) ==
    IF expected <= 0 \/ Len(values) <= expected THEN values
    ELSE SubSeq(values, 1, expected - 1)
         \o <<Join(SubSeq(values, expected, Len(values)), <<delimiter>>)>>

coalesce_inline_values(values, expected, delimiter) ==
    IF expected <= 0 THEN values
    ELSE IF Len(values) = expected THEN values
    ELSE IF Len(values) < expected THEN values
    ELSE LET chunk_size == Len(values) \div expected
         IN IF Len(values) % expected = 0 /\ chunk_size > 1
            THEN [k \in 1..expected |->
                    Join(SubSeq(values, (k - 1) * chunk_size + 1, k * chunk_size),
                         <<delimiter>>)]
            ELSE IF expected > 1 /\ Len(values) > expected
            THEN SubSeq(values, 1, expected - 1)
                 \o <<Join(SubSeq(values, expected, Len(values)), <<delimiter>>)>>
            ELSE values

coalesce_row_values(values, expected, delimiter) ==
    IF expected <= 0 THEN values
    ELSE IF Len(values) = expected THEN values
    ELSE IF Len(values) > expected
    THEN SubSeq(values, 1, expected - 1)
         \o <<Join(SubSeq(values, expected, Len(values)), <<delimiter>>)>>
    ELSE values

\* the cursor is not touched: the result carries no index
decode_inline_primitive_array(header, inline_values, options) ==
    LET Counted(primitives) ==
            IF ~primitives.ok THEN primitives
            ELSE IF ~assert_expected_count(Len(primitives.val), header.length, options)
            THEN ErrorResult("ValueError: Expected inline array items")
            ELSE OkResult([t |-> "arr", v |-> primitives.val])
    IN Counted(map_row_values_to_primitives(
                   coalesce_inline_values(
                       parse_delimited_values(inline_values, header.delimiter),
                       header.length, header.delimiter)))

\* header.fields or []
FieldsOf(header) == IF header.fields = <<>> THEN <<>> ELSE header.fields[1]

\* the for loop of decode_tabular_array: obj[field] = primitives[idx]
RECURSIVE RowObjectFrom(_, _, _, _)
RowObjectFrom(fields, primitives, idx, obj) ==
    IF idx > Len(fields) THEN OkResult([t |-> "obj", v |-> obj])
    ELSE IF idx > Len(primitives) THEN ErrorResult("IndexError: list index out of range")
    ELSE RowObjectFrom(fields, primitives, idx + 1,
                       DictSet(obj, fields[idx], primitives[idx]))

\* one row of decode_tabular_array, from the split to the finished object
decode_tabular_row(line, header, options) ==
    LET Row(primitives) ==
            IF ~primitives.ok THEN primitives
            ELSE RowObjectFrom(FieldsOf(header), primitives.val, 1, <<>>)
        Counted(values) ==
            IF ~assert_expected_count(Len(values), Len(FieldsOf(header)), options)
            THEN ErrorResult("ValueError: Expected tabular row values")
            ELSE Row(map_row_values_to_primitives(values))
    IN Counted(coalesce_row_values(
                   parse_delimited_values(line.content, header.delimiter),
                   Len(FieldsOf(header)), header.delimiter))

RECURSIVE decode_object(_, _, _, _)
RECURSIVE DecodeObjectLoop(_, _, _, _, _)
RECURSIVE decode_key_value_pair(_, _, _, _, _)
RECURSIVE decode_key_value(_, _, _, _, _)
RECURSIVE decode_array_from_header(_, _, _, _, _)
RECURSIVE decode_list_array(_, _, _, _, _)
RECURSIVE ListArrayLoop(_, _, _, _, _, _)
RECURSIVE decode_tabular_array(_, _, _, _, _)
RECURSIVE TabularLoop(_, _, _, _, _, _)
RECURSIVE decode_list_item(_, _, _, _, _)
RECURSIVE decode_object_from_list_item(_, _, _, _, _)
RECURSIVE ListItemObjectLoop(_, _, _, _, _)

\* A called decoder's result is bound once, as the parameter of a local
\* operator: "x = f(...)" followed by the statements that use x.

DecodeObjectLoop(lines, index, base_depth, options, obj) ==
    IF at_end(lines, index) THEN Cur([t |-> "obj", v |-> obj], index)
    ELSE LET line == peek(lines, index)
             Rest(kv) ==
                 IF ~kv.ok THEN kv
                 ELSE DecodeObjectLoop(lines, kv.index, base_depth, options,
                                       DictSet(obj, kv.val.key, kv.val.value))
         IN IF line.depth < base_depth THEN Cur([t |-> "obj", v |-> obj], index)
            ELSE IF line.depth = base_depth
            THEN Rest(decode_key_value_pair(line, lines, index, base_depth, options))
            ELSE Cur([t |-> "obj", v |-> obj], index)

decode_object(lines, index, base_depth, options) ==
    DecodeObjectLoop(lines, index, base_depth, options, <<>>)

decode_key_value_pair(line, lines, index, base_depth, options) ==
    decode_key_value(line.content, lines, advance(lines, index), base_depth, options)

\* the result's val is [key, value, follow_depth]
decode_key_value(content, lines, index, base_depth, options) ==
    LET ArrayValue(key, value) ==
            IF ~value.ok THEN value
            ELSE Cur([key |-> key, value |-> value.val,
                      follow_depth |-> base_depth + 1], value.index)
        PrimitiveValue(key, value) ==
            IF ~value.ok THEN value
            ELSE Cur([key |-> key, value |-> value.val,
                      follow_depth |-> base_depth + 1], index)
        AfterKey(kt) ==
            IF ~kt.ok THEN kt
            ELSE LET rest == Strip(From(content, kt.val.end))
                 IN IF rest = <<>>
                    THEN IF ~at_end(lines, index) /\ peek(lines, index).depth > base_depth
                         THEN ArrayValue(kt.val.key,
                                         decode_object(lines, index, base_depth + 1, options))
                         ELSE Cur([key |-> kt.val.key, value |-> EmptyObject,
                                   follow_depth |-> base_depth + 1], index)
                    ELSE PrimitiveValue(kt.val.key, parse_primitive_token(rest))
        AfterHeader(array_header) ==
            IF ~array_header.ok THEN array_header
            ELSE IF /\ array_header.val.found
                    /\ array_header.val.key # <<>>
                    /\ array_header.val.key[1] # <<>>
            THEN ArrayValue(array_header.val.key[1],
                            decode_array_from_header(array_header.val, lines, index,
                                                     base_depth, options))
            ELSE AfterKey(parse_key_token(content, 1))
    IN AfterHeader(parse_array_header_line(content, DEFAULT_DELIMITER))

\* header carries the line's inlineValues, which the code passes beside it
decode_array_from_header(header, lines, index, base_depth, options) ==
    IF header.inlineValues # <<>> /\ Strip(header.inlineValues[1]) # <<>>
    THEN LET Inline(r) == IF ~r.ok THEN r ELSE Cur(r.val, index)
         IN Inline(decode_inline_primitive_array(header, header.inlineValues[1], options))
    ELSE IF FieldsOf(header) # <<>>
    THEN decode_tabular_array(header, lines, index, base_depth, options)
    ELSE decode_list_array(header, lines, index, base_depth, options)

\* the while loop of decode_list_array; candidate_depths is
\* {item_depth, item_depth - 1} as item_depth > 0, and min_depth item_depth - 1
ListArrayLoop(header, lines, index, item_depth, options, items) ==
    IF at_end(lines, index) \/ Len(items) >= header.length THEN Cur(items, index)
    ELSE
    LET line == peek(lines, index)
        Rest(item) ==
            IF ~item.ok THEN item
            ELSE ListArrayLoop(header, lines, item.index, item_depth,
                               options, Append(items, item.val))
        AfterHeader(nested_header) ==
            IF ~nested_header.ok THEN nested_header
            ELSE IF nested_header.val.found
            THEN Rest(decode_array_from_header(nested_header.val, lines,
                                               advance(lines, index), item_depth, options))
            ELSE Cur(items, index)
    IN IF line.depth < item_depth - 1 THEN Cur(items, index)
       ELSE IF line.depth \in {item_depth, item_depth - 1}
       THEN IF line.content = LIST_ITEM_MARKER
            THEN ListArrayLoop(header, lines, advance(lines, index), item_depth,
                               options, Append(items, EmptyObject))
            ELSE IF StartsWith(line.content, LIST_ITEM_PREFIX)
            THEN Rest(decode_list_item(lines, index, item_depth, header.delimiter, options))
            ELSE AfterHeader(parse_array_header_line(line.content, header.delimiter))
       ELSE Cur(items, index)

decode_list_array(header, lines, index, base_depth, options) ==
    LET item_depth == base_depth + 1
        AfterLoop(loop) ==
            IF ~loop.ok THEN loop
            ELSE IF ~assert_expected_count(Len(loop.val), header.length, options)
            THEN ErrorResult("ValueError: Expected list array items")
            ELSE IF /\ options.strict
                    /\ ~at_end(lines, loop.index)
                    /\ peek(lines, loop.index).depth \in {item_depth, item_depth - 1}
                    /\ \/ StartsWith(peek(lines, loop.index).content, LIST_ITEM_PREFIX)
                       \/ peek(lines, loop.index).content = LIST_ITEM_MARKER
            THEN ErrorResult("ValueError: Expected list array items, but found more")
            ELSE Cur([t |-> "arr", v |-> loop.val], loop.index)
    IN AfterLoop(ListArrayLoop(header, lines, index, item_depth, options, <<>>))

\* the while loop of decode_tabular_array
TabularLoop(header, lines, index, row_depth, options, objects) ==
    IF at_end(lines, index) \/ Len(objects) >= header.length THEN Cur(objects, index)
    ELSE
    LET line == peek(lines, index)
        Rest(obj) ==
            IF ~obj.ok THEN obj
            ELSE TabularLoop(header, lines, advance(lines, index), row_depth,
                             options, Append(objects, obj.val))
    IN IF line.depth < row_depth THEN Cur(objects, index)
       ELSE IF line.depth = row_depth
       THEN Rest(decode_tabular_row(line, header, options))
       ELSE Cur(objects, index)

decode_tabular_array(header, lines, index, base_depth, options) ==
    LET row_depth == base_depth + 1
        AfterLoop(loop) ==
            IF ~loop.ok THEN loop
            ELSE IF ~assert_expected_count(Len(loop.val), header.length, options)
            THEN ErrorResult("ValueError: Expected tabular rows")
            ELSE IF /\ options.strict
                    /\ ~at_end(lines, loop.index)
                    /\ peek(lines, loop.index).depth = row_depth
                    /\ ~StartsWith(peek(lines, loop.index).content, LIST_ITEM_PREFIX)
                    /\ LET content == peek(lines, loop.index).content
                       IN \/ ~Contains(content, COLON)
                          \/ /\ Contains(content, header.delimiter)
                             /\ Find(content, header.delimiter, 1) < Find(content, COLON, 1)
            THEN ErrorResult("ValueError: Expected tabular rows, but found more")
            ELSE Cur([t |-> "arr", v |-> loop.val], loop.index)
    IN AfterLoop(TabularLoop(header, lines, index, row_depth, options, <<>>))

decode_list_item(lines, index, base_depth, active_delimiter, options) ==
    IF at_end(lines, index) THEN ErrorResult("ValueError: Expected list item")
    ELSE
    LET line == peek(lines, index)
        next == advance(lines, index)
        after_hyphen == From(line.content, Len(LIST_ITEM_PREFIX) + 1)
        Primitive(value) == IF ~value.ok THEN value ELSE Cur(value.val, next)
        AfterHeader(array_header) ==
            IF ~array_header.ok THEN array_header
            ELSE IF array_header.val.found
            THEN decode_array_from_header(array_header.val, lines, next, base_depth, options)
            ELSE IF is_object_first_field_after_hyphen(after_hyphen)
            THEN decode_object_from_list_item(line, lines, next, base_depth, options)
            ELSE Primitive(parse_primitive_token(after_hyphen))
    IN IF line.content = LIST_ITEM_MARKER THEN Cur(EmptyObject, next)
       ELSE IF Strip(after_hyphen) = <<>> THEN Cur(EmptyObject, next)
       ELSE AfterHeader(IF is_array_header_after_hyphen(after_hyphen)
                        THEN parse_array_header_line(after_hyphen, active_delimiter)
                        ELSE OkResult(NoHeader))

\* the while loop of decode_object_from_list_item
ListItemObjectLoop(lines, index, follow_depth, options, obj) ==
    IF at_end(lines, index) THEN Cur([t |-> "obj", v |-> obj], index)
    ELSE LET line == peek(lines, index)
             Rest(kv) ==
                 IF ~kv.ok THEN kv
                 ELSE ListItemObjectLoop(lines, kv.index, follow_depth, options,
                                         DictSet(obj, kv.val.key, kv.val.value))
         IN IF line.depth < follow_depth THEN Cur([t |-> "obj", v |-> obj], index)
            ELSE IF /\ line.depth = follow_depth
                    /\ ~StartsWith(line.content, LIST_ITEM_PREFIX)
            THEN Rest(decode_key_value_pair(line, lines, index, follow_depth, options))
            ELSE Cur([t |-> "obj", v |-> obj], index)

\* decode_first_field_on_hyphen is decode_key_value
decode_object_from_list_item(first_line, lines, index, base_depth, options) ==
    LET after_hyphen == From(first_line.content, Len(LIST_ITEM_PREFIX) + 1)
        Rest(first) ==
            IF ~first.ok THEN first
            ELSE ListItemObjectLoop(lines, first.index, first.val.follow_depth, options,
                                    <<<<first.val.key, first.val.value>>>>)
    IN Rest(decode_key_value(after_hyphen, lines, index, base_depth, options))

\* the cursor is new: its index is 0
decode_value_from_lines(lines, options) ==
    IF lines = <<>> THEN ErrorResult("ValueError: No content to decode")
    ELSE
    LET first == peek(lines, 0)
        Primitive(value) == IF ~value.ok THEN value ELSE Cur(value.val, 0)
        AfterHeader(header_info) ==
            IF ~header_info.ok THEN header_info
            ELSE IF header_info.val.found
            THEN decode_array_from_header(header_info.val, lines, advance(lines, 0), 0, options)
            ELSE IF Len(lines) = 1 /\ ~is_key_value_line(first)
            THEN Primitive(parse_primitive_token(Strip(first.content)))
            ELSE decode_object(lines, 0, 0, options)
    IN AfterHeader(IF is_root_array_header_line(first)
                   THEN parse_array_header_line(first.content, DEFAULT_DELIMITER)
                   ELSE OkResult(NoHeader))

----------------------------------------------------------------------------
(* decoder.py *)

DefaultDecodeOptions == [indent |-> 2, strict |-> TRUE]

\* decode(input_text, options); the result also carries the cursor's final index
decode(input_text, options) ==
    IF input_text = <<>> \/ Strip(input_text) = <<>> THEN Cur(EmptyObject, 0)
    ELSE LET Scanned(lines) ==
                 IF Len(lines) = 0 THEN Cur(EmptyObject, 0)
                 ELSE decode_value_from_lines(lines, options)
         IN Scanned(to_parsed_lines(input_text, options.indent))

----------------------------------------------------------------------------
(* normalize.py: the predicates on canonical values *)

is_json_primitive(value) == value.t \in {"null", "bool", "int", "float", "str"}
is_json_object(value) == value.t = "obj"
is_json_array(value) == value.t = "arr"

is_array_of_primitives(value) ==
    /\ value.t = "arr"
    /\ \A i \in 1..Len(value.v) : is_json_primitive(value.v[i])

is_array_of_objects(value) ==
    /\ value.t = "arr"
    /\ Len(value.v) # 0
    /\ \A i \in 1..Len(value.v) : value.v[i].t = "obj"

is_array_of_arrays(value) ==
    /\ value.t = "arr"
    /\ Len(value.v) # 0
    /\ \A i \in 1..Len(value.v) : value.v[i].t = "arr"

\* list(obj.keys()), key in obj, obj[key] on a dict held as a sequence of pairs
Keys(obj) == [i \in 1..Len(obj.v) |-> obj.v[i][1]]
HasKey(obj, key) == \E i \in 1..Len(obj.v) : obj.v[i][1] = key
DictGet(obj, key) == obj.v[CHOOSE i \in 1..Len(obj.v) : obj.v[i][1] = key][2]

\* normalize_value.  Host values beyond the canonical ones: a float that is
\* NaN, an infinity or -0.0 is Val("float", <<"nan">>), <<"inf">>, <<"-inf">>
\* or <<"-0.0">>; a Decimal is Val("decimal", d) with d one of <<"nan">>,
\* <<"inf">>, <<"-inf">>, <<"-0">> or <<m, e>> for m * 10^e; a datetime is
\* held by its isoformat(); a dict with keys of any kind is Val("dict", ..),
\* its keys being values; tuple and set hold their items in iteration
\* order; "other" is any object of a type no branch names.
\* Every int and every float leaves through the first numeric branch, so
\* the later test of the int against -2**53 and 2**53 is never reached.  An
\* int is returned as it is, whatever holds its magnitude.
RECURSIVE normalize_value(_)
normalize_value(value) ==
    LET None == [t |-> "null", v |-> <<>>]
        NonFinite(x) == Len(x) = 1 /\ x[1] \in {"nan", "inf", "-inf"}
        \* float(value) of a finite Decimal: beyond the range of a double
        \* the result is an infinity, below it a zero
        ToFloat(d) ==
            IF Len(d) = 1 THEN <<"-0.0">>
            ELSE LET m == IF d[1] < 0 THEN -d[1] ELSE d[1]
                     adjusted == Len(NatToStr(m)) + d[2] - 1
                 IN IF m = 0 THEN <<0, 0>>
                    ELSE IF adjusted > 308
                    THEN (IF d[1] < 0 THEN <<"-inf">> ELSE <<"inf">>)
                    ELSE IF adjusted < -324
                    THEN (IF d[1] < 0 THEN <<"-0.0">> ELSE <<0, 0>>)
                    ELSE NormFloat(d[1], d[2])
        \* str(key)
        Str(key) ==
            CASE key.t = "str" -> key.v
              [] key.t = "null" -> <<"N", "o", "n", "e">>
              [] key.t = "bool" -> (IF key.v THEN <<"T", "r", "u", "e">>
                                    ELSE <<"F", "a", "l", "s", "e">>)
              [] key.t = "int" -> IntToStr(key.v)
              [] key.t = "float" -> FloatToStr(key.v[1], key.v[2])
        RECURSIVE Items(_, _, _)
        Items(pairs, i, result) ==
            IF i > Len(pairs) THEN result
            ELSE Items(pairs, i + 1,
                       DictSet(result, Str(pairs[i][1]),
                               normalize_value(pairs[i][2])))
    IN IF value.t \in {"null", "bool"} THEN value
       ELSE IF value.t = "decimal"
       THEN (IF NonFinite(value.v) THEN None
             ELSE [t |-> "float", v |-> ToFloat(value.v)])
       ELSE IF value.t = "int" THEN value
       ELSE IF value.t = "float"
       THEN (IF NonFinite(value.v) THEN None
             ELSE IF value.v = <<"-0.0">> THEN [t |-> "int", v |-> 0]
             ELSE value)
       ELSE IF value.t = "str" THEN value
       ELSE IF value.t = "datetime" THEN [t |-> "str", v |-> value.v]
       ELSE IF value.t = "set"
       THEN [t |-> "arr",
             v |-> [i \in 1..Len(value.v) |-> normalize_value(value.v[i])]]
       ELSE IF value.t = "dict"
       THEN [t |-> "obj", v |-> Items(value.v, 1, <<>>)]
       ELSE IF value.t = "obj"
       THEN [t |-> "obj",
             v |-> [i \in 1..Len(value.v) |->
                       <<value.v[i][1], normalize_value(value.v[i][2])>>]]
       ELSE IF value.t \in {"arr", "tuple"}
       THEN [t |-> "arr",
             v |-> [i \in 1..Len(value.v) |-> normalize_value(value.v[i])]]
       ELSE None

----------------------------------------------------------------------------
(* writer.py and encoders.py.  Every encoder returns the lines it pushes to *)
(* the LineWriter, in order.  options is [indent, delimiter, lengthMarker],  *)
(* lengthMarker being "#", or "" for False.                                 *)

RECURSIVE Spaces(_)
Spaces(n) == IF n <= 0 THEN <<>> ELSE <<" ">> \o Spaces(n - 1)

\* the line LineWriter.push(depth, content) appends
push(depth, content, options) ==
    LET c == RStrip(content)
        indent_depth ==
            IF depth > 0 /\ (StartsWith(c, LIST_ITEM_PREFIX) \/ c = LIST_ITEM_MARKER)
            THEN Max(0, depth - 1)
            ELSE depth
    IN Spaces(indent_depth * options.indent) \o c

\* the concatenation of a sequence of line lists
RECURSIVE Flatten(_)
Flatten(lists) == IF lists = <<>> THEN <<>> ELSE lists[1] \o Flatten(Tail(lists))

\* prefix is <<>> for None, <<key>> for a key
encode_inline_array_line(values, delimiter, prefix, length_marker) ==
    LET header == format_header(Len(values), prefix, <<>>, delimiter, length_marker)
        joined == encode_and_join_primitives(values, delimiter)
        separator == IF delimiter = TAB THEN <<TAB>> ELSE <<" ">>
    IN IF values = <<>> THEN header ELSE header \o separator \o joined

encode_inline_primitive_array(prefix, values, depth, options) ==
    <<push(depth, encode_inline_array_line(values, options.delimiter, prefix,
                                           options.lengthMarker), options)>>

encode_array_of_arrays_as_list_items(prefix, values, depth, options) ==
    <<push(depth, format_header(Len(values), prefix, <<>>, options.delimiter,
                                options.lengthMarker), options)>>
    \o Flatten([i \in 1..Len(values) |->
            IF is_array_of_primitives(values[i])
            THEN <<push(depth + 1,
                        LIST_ITEM_PREFIX
                        \o encode_inline_array_line(values[i].v, options.delimiter,
                                                    <<>>, options.lengthMarker),
                        options)>>
            ELSE <<>>])

\* is_tabular_array without the comparison of the number of keys
is_tabular_array_AnyKeyCount(rows, header) ==
    \A i \in 1..Len(rows) :
        /\ rows[i].t = "obj"
        /\ \A j \in 1..Len(header) :
              HasKey(rows[i], header[j]) /\ is_json_primitive(DictGet(rows[i], header[j]))

is_tabular_array(rows, header) ==
    \A i \in 1..Len(rows) :
        /\ rows[i].t = "obj"
        /\ Len(Keys(rows[i])) = Len(header)
        /\ \A j \in 1..Len(header) :
              HasKey(rows[i], header[j]) /\ is_json_primitive(DictGet(rows[i], header[j]))

\* <<>> for None, <<header>> for a header
extract_tabular_header(rows) ==
    IF rows = <<>> THEN <<>>
    ELSE IF rows[1].t # "obj" THEN <<>>
    ELSE IF Keys(rows[1]) = <<>> THEN <<>>
    ELSE IF is_tabular_array(rows, Keys(rows[1])) THEN <<Keys(rows[1])>>
    ELSE <<>>

write_tabular_rows(rows, header, depth, options) ==
    Flatten([i \in 1..Len(rows) |->
        IF rows[i].t # "obj" THEN <<>>
        ELSE <<push(depth,
                    encode_and_join_primitives(
                        [j \in 1..Len(header) |-> DictGet(rows[i], header[j])],
                        options.delimiter),
                    options)>>])

encode_array_of_objects_as_tabular(prefix, rows, header, depth, options) ==
    <<push(depth, format_header(Len(rows), prefix, <<header>>, options.delimiter,
                                options.lengthMarker), options)>>
    \o write_tabular_rows(rows, header, depth + 1, options)

RECURSIVE encode_object(_, _, _)
RECURSIVE encode_key_value_pair(_, _, _, _)
RECURSIVE encode_array(_, _, _, _)
RECURSIVE encode_mixed_array_as_list_items(_, _, _, _)
RECURSIVE encode_object_as_list_item(_, _, _)

encode_object(value, depth, options) ==
    Flatten([i \in 1..Len(value.v) |->
        encode_key_value_pair(value.v[i][1], value.v[i][2], depth, options)])

encode_key_value_pair(key, value, depth, options) ==
    LET encoded_key == encode_key(key)
    IN IF is_json_primitive(value)
       THEN <<push(depth,
                   encoded_key \o <<":", " ">> \o encode_primitive(value, options.delimiter),
                   options)>>
       ELSE IF is_json_array(value)
       THEN encode_array(<<key>>, value.v, depth, options)
       ELSE IF value.v = <<>>
       THEN <<push(depth, encoded_key \o <<":">>, options)>>
       ELSE <<push(depth, encoded_key \o <<":">>, options)>>
            \o encode_object(value, depth + 1, options)

\* key is <<>> for None; value is the list's sequence of elements
encode_array(key, value, depth, options) ==
    LET arr == [t |-> "arr", v |-> value]
    IN IF Len(value) = 0
       THEN <<push(depth, format_header(0, key, <<>>, options.delimiter,
                                        options.lengthMarker), options)>>
       ELSE IF is_array_of_primitives(arr)
       THEN encode_inline_primitive_array(key, value, depth, options)
       ELSE IF /\ is_array_of_arrays(arr)
               /\ \A i \in 1..Len(value) : is_array_of_primitives(value[i])
       THEN encode_array_of_arrays_as_list_items(key, value, depth, options)
       ELSE IF is_array_of_objects(arr) /\ extract_tabular_header(value) # <<>>
       THEN encode_array_of_objects_as_tabular(key, value,
                                               extract_tabular_header(value)[1],
                                               depth, options)
       ELSE encode_mixed_array_as_list_items(key, value, depth, options)

encode_mixed_array_as_list_items(prefix, values, depth, options) ==
    <<push(depth, format_header(Len(values), prefix, <<>>, options.delimiter,
                                options.lengthMarker), options)>>
    \o Flatten([i \in 1..Len(values) |->
        LET item == values[i]
        IN IF is_json_primitive(item)
           THEN <<push(depth + 1,
                       LIST_ITEM_PREFIX \o encode_primitive(item, options.delimiter),
                       options)>>
           ELSE IF is_json_array(item)
           THEN IF is_array_of_primitives(item)
                THEN <<push(depth + 1,
                            LIST_ITEM_PREFIX
                            \o encode_inline_array_line(item.v, options.delimiter,
                                                        <<>>, options.lengthMarker),
                            options)>>
                ELSE encode_array(<<>>, item.v, depth + 1, options)
           ELSE encode_object_as_list_item(item, depth + 1, options)])

\* the lines of the elements of a first-field array that is neither all
\* primitives nor tabular (both such branches of the code take the same three
\* kinds of element and drop every other)
FirstFieldItems(first_value, depth, options) ==
    Flatten([i \in 1..Len(first_value.v) |->
        LET nested == first_value.v[i]
        IN IF is_json_object(nested)
           THEN encode_object_as_list_item(nested, depth + 1, options)
           ELSE IF is_json_primitive(nested)
           THEN <<push(depth + 1,
                       LIST_ITEM_PREFIX \o encode_primitive(nested, options.delimiter),
                       options)>>
           ELSE IF is_json_array(nested) /\ is_array_of_primitives(nested)
           THEN <<push(depth + 1,
                       LIST_ITEM_PREFIX
                       \o encode_inline_array_line(nested.v, options.delimiter,
                                                   <<>>, options.lengthMarker),
                       options)>>
           ELSE <<>>])

encode_object_as_list_item(obj, depth, options) ==
    IF obj.v = <<>> THEN <<push(depth, LIST_ITEM_MARKER, options)>>
    ELSE
    LET first_key == obj.v[1][1]
        first_value == obj.v[1][2]
        encoded_first_key == encode_key(first_key)
        plain_header ==
            push(depth,
                 LIST_ITEM_PREFIX \o encoded_first_key \o <<"[">>
                 \o NatToStr(Len(first_value.v)) \o <<"]", ":">>,
                 options)
        first ==
            IF is_json_primitive(first_value)
            THEN <<push(depth,
                        LIST_ITEM_PREFIX \o encoded_first_key \o <<":", " ">>
                        \o encode_primitive(first_value, options.delimiter),
                        options)>>
            ELSE IF is_json_array(first_value)
            THEN IF is_array_of_primitives(first_value)
                 THEN <<push(depth,
                             LIST_ITEM_PREFIX
                             \o encode_inline_array_line(first_value.v, options.delimiter,
                                                         <<first_key>>,
                                                         options.lengthMarker),
                             options)>>
                 ELSE IF /\ is_array_of_objects(first_value)
                         /\ extract_tabular_header(first_value.v) # <<>>
                 THEN <<push(depth,
                             LIST_ITEM_PREFIX
                             \o format_header(Len(first_value.v), <<first_key>>,
                                              extract_tabular_header(first_value.v),
                                              options.delimiter, options.lengthMarker),
                             options)>>
                      \o write_tabular_rows(first_value.v,
                                            extract_tabular_header(first_value.v)[1],
                                            depth + 1, options)
                 ELSE <<plain_header>> \o FirstFieldItems(first_value, depth, options)
            ELSE IF first_value.v = <<>>
            THEN <<push(depth, LIST_ITEM_PREFIX \o encoded_first_key \o <<":">>, options)>>
            ELSE <<push(depth, LIST_ITEM_PREFIX \o encoded_first_key \o <<":">>, options)>>
                 \o encode_object(first_value, depth + 2, options)
    IN first
       \o Flatten([i \in 1..(Len(obj.v) - 1) |->
              encode_key_value_pair(obj.v[i + 1][1], obj.v[i + 1][2], depth + 1, options)])

\* LineWriter.to_string() of the pushed lines
to_string(lines) == Join(lines, <<NEWLINE>>)

encode_value(value, options) ==
    IF is_json_primitive(value) THEN encode_primitive(value, options.delimiter)
    ELSE IF is_json_array(value) THEN to_string(encode_array(<<>>, value.v, 0, options))
    ELSE to_string(encode_object(value, 0, options))

----------------------------------------------------------------------------
(* encoder.py: encode().  opts is [delimiter, lengthMarker] with            *)
(* lengthMarker a BOOLEAN; the indent is the default.                       *)

resolve_encode_options(o) ==
    [indent |-> 2,
     delimiter |-> o.delimiter,
     lengthMarker |-> IF o.lengthMarker THEN HASH ELSE ""]

encode(input_value, o) ==
    encode_value(normalize_value(input_value), resolve_encode_options(o))

----------------------------------------------------------------------------
(* The values the callers hand to encode.  The strings and keys are those   *)
(* of the test fixtures (tests/conftest.py special_characters_data, tests/  *)
(* test_basic_encoding.py) cut to a few characters each.                    *)

MaxArrayLen == 2

Val(tag, x) == [t |-> tag, v |-> x]

SeqsUpTo(S, n) == UNION {[1..k -> S] : k \in 0..n}

StrPool ==
    {<<"a">>, <<"a", " ", "b">>, <<"a", ",", "b">>, <<"a", "|", "b">>,
     <<"x", ":", "y">>, <<"[", "1", "]", ":">>,
     <<"a", "[", "1", "]", ":", " ", "b">>, <<"{", "a", "}">>,
     <<"q", "\"", "t">>, <<"b", "\\", "s">>, <<>>, <<"1">>, <<"-", "a">>,
     <<"t", "r", "u", "e">>}

\* keys encode_key leaves bare, and keys it quotes
KeyPool ==
    {<<"k">>, <<"i", "d">>, <<"a", ".", "b">>}
    \cup {<<"a", " ", "b">>, <<"a", ":", "b">>, <<"a", ",", "b">>, <<"x", "-", "y">>}

RoundTripValues ==
    LET Obj1(k, x) == Val("obj", << <<k, x>> >>)
        Obj2(k1, x1, k2, x2) == Val("obj", << <<k1, x1>>, <<k2, x2>> >>)
        One == Val("int", 1)
        Prims ==
            {Val("null", <<>>), Val("bool", TRUE), One, Val("int", -2),
             Val("float", <<15, -1>>)}
            \cup {Val("str", s) : s \in StrPool}
        ArrElems ==
            {One, Val("null", <<>>), Val("str", <<"a">>),
             Val("str", <<"a", ",", "b">>), Val("str", <<"x", ":", "y">>),
             Val("str", <<"a", "|", "b">>), Val("str", <<"a", TAB, "b">>)}
        PrimArrays == {Val("arr", q) : q \in SeqsUpTo(ArrElems, MaxArrayLen)}
        RowCells == {One, Val("str", <<"a">>), Val("str", <<"a", "|", "b">>)}
        TabObjs ==
            {Obj2(<<"i", "d">>, x, <<"k">>, y) : x \in RowCells, y \in RowCells}
            \cup {Obj1(<<"i", "d">>, x) : x \in RowCells}
        ObjArrays ==
            {Val("arr", q) : q \in SeqsUpTo(TabObjs, MaxArrayLen) \ {<<>>}}
            \cup {Val("arr", <<Obj1(<<"i", "d">>, One), Obj1(<<"k">>, One)>>),
                  Val("arr", <<Obj2(<<"i", "d">>, One, <<"k">>, Val("str", <<"a">>)),
                               Obj2(<<"k">>, Val("str", <<"a">>), <<"i", "d">>, One)>>)}
        NestedObjs ==
            {EmptyObject,
             Obj1(<<"b">>, One),
             Obj1(<<"b">>, Obj1(<<"c">>, Val("str", <<"a">>)))}
        MixedElems ==
            {One, Val("str", <<"x", ":", "y">>),
             Val("arr", <<One>>),
             Val("arr", <<Val("arr", <<One>>)>>),
             EmptyObject,
             Obj1(<<"a">>, Obj1(<<"b">>, One)),
             Obj2(<<"a">>, One, <<"b">>, Val("arr", <<One>>)),
             Obj1(<<"a">>, Val("arr", <<One, Val("arr", <<One>>)>>)),
             Obj1(<<"a">>, Val("arr", <<One, Val("arr", <<Val("arr", <<One>>)>>)>>))}
        MixedArrays == {Val("arr", q) : q \in SeqsUpTo(MixedElems, MaxArrayLen) \ {<<>>}}
        MemberValues ==
            Prims \cup PrimArrays \cup ObjArrays \cup MixedArrays \cup NestedObjs
    IN Prims \cup PrimArrays \cup ObjArrays \cup MixedArrays
       \cup {Obj1(k, x) : k \in KeyPool, x \in MemberValues}
       \cup {Obj2(<<"k">>, x, <<"i", "d">>, y) :
                x \in NestedObjs \cup {Val("arr", <<>>), One},
                y \in NestedObjs \cup {Val("arr", <<One>>), Val("null", <<>>)}}

EncodeOptions == [delimiter : DELIMITERS, lengthMarker : BOOLEAN]

NoOutput == [ok |-> FALSE, err |-> "not called"]

----------------------------------------------------------------------------
(* Spec: a caller that encodes a canonical value and decodes the text with *)
(* the default decode options (tests/conftest.py assert_roundtrip).        *)

Init ==
    /\ pc = "start"
    /\ input \in RoundTripValues
    /\ opts \in EncodeOptions
    /\ text = <<>>
    /\ output = NoOutput

Encode ==
    /\ pc = "start"
    /\ text' = encode(input, opts)
    /\ pc' = "encoded"
    /\ UNCHANGED <<input, opts, output>>

Decode ==
    /\ pc = "encoded"
    /\ output' = decode(text, DefaultDecodeOptions)
    /\ pc' = "decoded"
    /\ UNCHANGED <<input, opts, text>>

Next == Encode \/ Decode

Spec == Init /\ [][Next]_vars

\* decode returned the value that was encoded
RoundTripped == output.ok /\ output.val = input

\* C1: for every canonical value and every delimiter and lengthMarker,
\* decode(encode(v, options)) with the default decode options equals v.
C1_RoundTripLaw == pc = "decoded" => RoundTripped

IsSingleMember(value) == value.t = "obj" /\ Len(value.v) = 1

\* C9: an object {k: v} whose key k encode_key quotes round-trips, whatever
\* the member value v is (primitive, nested object, or array of any form).
C9_QuotedKeyRoundTrip ==
    (pc = "decoded" /\ IsSingleMember(input) /\ ~IsBareKey(input.v[1][1]))
        => RoundTripped

\* C10: an object {k: s} with a bare key k and a string s round-trips,
\* whatever characters s holds; a quoted string value is never read as an
\* array header.
C10_StringMemberRoundTrip ==
    (pc = "decoded" /\ IsSingleMember(input) /\ IsBareKey(input.v[1][1])
        /\ input.v[1][2].t = "str")
        => RoundTripped

----------------------------------------------------------------------------
(* SpecPrimitive: the primitive codec applied to one string.  The string is *)
(* encoded as a value and the text parsed back; or quoted and the quoted    *)
(* form parsed back, alone and as the cells of a row; or encoded as a key;  *)
(* or parsed as a token.                                                    *)

MaxStrLen == 3
MaxNumLen == 4

PrimitiveInputs ==
    LET Alphabet ==
            {"a", "n", "Z", "1", "-", " ", ":", DOUBLE_QUOTE, BACKSLASH, "[", "}",
             NEWLINE, CARRIAGE_RETURN, TAB, COMMA, PIPE, ".", "_", "é"}
        NumAlphabet == {"0", "1", "-", "+", ".", "e", "_"}
        Words ==
            {TRUE_LITERAL, FALSE_LITERAL, NULL_LITERAL,
             <<"T", "r", "u", "e">>, <<"i", "n", "f">>, <<"-", "i", "n", "f">>,
             <<"n", "a", "n">>, <<"I", "n", "f", "i", "n", "i", "t", "y">>,
             <<"1", "e", "+", "1">>, <<"1", "E", "1">>, <<"-", "1", ".", "5">>,
             <<"1", ".", "5", "e", "-", "1">>, <<"0", "1", "2", "3">>,
             <<"1", "2", "3", "4">>, <<"a", " ", "b">>, <<"a", "|", "b">>,
             <<"a", BACKSLASH, DOUBLE_QUOTE, "b">>, <<"a", "1", "_", ".", "b">>}
    IN SeqsUpTo(Alphabet, MaxStrLen) \cup SeqsUpTo(NumAlphabet, MaxNumLen) \cup Words

InitPrimitive ==
    /\ pc = "start"
    /\ input \in PrimitiveInputs
    /\ opts \in [delimiter : DELIMITERS, lengthMarker : {FALSE}]
    /\ text = <<>>
    /\ output = NoOutput

EncodePrimitive ==
    /\ pc = "start"
    /\ text' = encode_primitive(Val("str", input), opts.delimiter)
    /\ pc' = "encoded"
    /\ UNCHANGED <<input, opts, output>>

ParsePrimitive ==
    /\ pc = "encoded"
    /\ output' = parse_primitive_token(text)
    /\ pc' = "parsed"
    /\ UNCHANGED <<input, opts, text>>

\* the quoted form, as encode_string_literal and encode_key build it
QuoteString ==
    /\ pc = "start"
    /\ text' = <<DOUBLE_QUOTE>> \o escape_string(input) \o <<DOUBLE_QUOTE>>
    /\ pc' = "quoted"
    /\ UNCHANGED <<input, opts, output>>

ParseQuoted ==
    /\ pc = "quoted"
    /\ output' = parse_primitive_token(text)
    /\ pc' = "unquoted"
    /\ UNCHANGED <<input, opts, text>>

\* the quoted form as the second and the third cell of a row of three
ParseQuotedRow ==
    /\ pc = "quoted"
    /\ output' = map_row_values_to_primitives(
                     parse_delimited_values(
                         Join(<< <<"a">>, text, text >>, <<opts.delimiter>>),
                         opts.delimiter))
    /\ pc' = "row"
    /\ UNCHANGED <<input, opts, text>>

EncodeKey ==
    /\ pc = "start"
    /\ text' = encode_key(input)
    /\ pc' = "key"
    /\ UNCHANGED <<input, opts, output>>

ParseToken ==
    /\ pc = "start"
    /\ output' = parse_primitive_token(input)
    /\ pc' = "token"
    /\ UNCHANGED <<input, opts, text>>

NextPrimitive ==
    \/ EncodePrimitive \/ ParsePrimitive
    \/ QuoteString \/ ParseQuoted \/ ParseQuotedRow
    \/ EncodeKey
    \/ ParseToken

SpecPrimitive == InitPrimitive /\ [][NextPrimitive]_vars

----------------------------------------------------------------------------
(* SpecDecode: decode of a document that holds one array, whose declared    *)
(* length and whose body vary independently (tests/test_advanced_features   *)
(* TestStrictMode builds such documents by hand).  body is a sequence of    *)
(* lines, each a sequence of cells: an inline array has one cell per line   *)
(* of body, all rendered on the header line; a tabular array one row per    *)
(* line; a list array one list item per line.                               *)

MaxDeclared == 3
MaxBody == 3
MaxLines == 2

DocShapes ==
    LET Quoted == <<DOUBLE_QUOTE, "x", ":", "y", DOUBLE_QUOTE>>
        InlineCells == {<< <<"a">> >>, << <<"1">> >>,
                        << <<DOUBLE_QUOTE, "x", ",", "y", DOUBLE_QUOTE>> >>}
        Rows == {<< <<"1">> >>, << <<"1">>, <<"2">> >>, << <<"1">>, <<"2">>, <<"3">> >>,
                 <<Quoted>>, <<Quoted, <<"3">> >>, << <<"3">>, Quoted>>}
        Items == {<< <<"-", " ", "a">> >>, << <<"-">> >>,
                  << <<"-", " ", "k", ":", " ", "1">> >>}
        \* quoted literals: not closed, not closed and holding the text of
        \* an array header, closed early, with an unknown escape, ending in
        \* a backslash, closed by an escaped quote only; and three valid ones
        Literals ==
            {<<DOUBLE_QUOTE, "a", "b">>,
             <<DOUBLE_QUOTE, "[", "1", "]", ":", " ", "x">>,
             <<DOUBLE_QUOTE, "a", DOUBLE_QUOTE, "b">>,
             <<DOUBLE_QUOTE, "a", BACKSLASH, "q", "b", DOUBLE_QUOTE>>,
             <<DOUBLE_QUOTE, "a", BACKSLASH>>,
             <<DOUBLE_QUOTE, "a", "b", BACKSLASH, DOUBLE_QUOTE>>,
             <<DOUBLE_QUOTE, "a", BACKSLASH, "t", "b", DOUBLE_QUOTE>>,
             <<DOUBLE_QUOTE, "a", ",", "b", DOUBLE_QUOTE>>,
             <<DOUBLE_QUOTE, "a", BACKSLASH, BACKSLASH, DOUBLE_QUOTE>>}
        \* lines that hold no array: words, a number, a literal, key/value
        \* lines, a bracket without a colon
        Plain == {<< <<"h", "i">> >>, << <<"4", "2">> >>, << <<"t", "r", "u", "e">> >>,
                  << <<"h", "i", " ", "y", "o", "u">> >>,
                  << <<DOUBLE_QUOTE, "a", ":", "b", DOUBLE_QUOTE>> >>,
                  << <<"a", ":", " ", "1">> >>, << <<"b", ":">> >>,
                  << <<"x", ":", "y">> >>, << <<"[", "1", "]">> >>}
    IN [form : {"inline"}, root : BOOLEAN, declared : 0..MaxDeclared,
        fields : {<<>>}, body : SeqsUpTo(InlineCells, MaxBody), indent : {0}]
       \cup
       [form : {"tabular"}, root : BOOLEAN, declared : 0..MaxDeclared,
        fields : {<< <<"a">> >>, << <<"a">>, <<"b">> >>},
        body : SeqsUpTo(Rows, MaxBody), indent : {2}]
       \cup
       [form : {"list"}, root : BOOLEAN, declared : 0..MaxDeclared,
        fields : {<<>>}, body : SeqsUpTo(Items, MaxBody), indent : {0, 2}]
       \cup
       [form : {"value", "key", "item"}, root : BOOLEAN, declared : {1},
        fields : {<<>>}, body : {<< <<q>> >> : q \in Literals}, indent : {0}]
       \cup
       [form : {"cell", "row"}, root : BOOLEAN, declared : 1..MaxDeclared,
        fields : {[i \in 1..MaxDeclared |-> <<"f">> \o NatToStr(i)]},
        body : {<< <<q>> >> : q \in Literals}, indent : {2}]
       \cup
       [form : {"trailing"}, root : BOOLEAN, declared : 0..MaxDeclared,
        fields : {<<>>}, body : SeqsUpTo(InlineCells, MaxBody), indent : {0}]
       \cup
       [form : {"unclosed", "nonnumeric", "uncoloned"}, root : BOOLEAN,
        declared : 0..MaxDeclared, fields : {<<>>},
        body : SeqsUpTo(InlineCells, MaxBody), indent : {0}]
       \cup
       [form : {"plain"}, root : BOOLEAN, declared : {0}, fields : {<<>>},
        body : SeqsUpTo(Plain, MaxLines) \ {<<>>}, indent : {0, 2}]

\* the text of a document shape, with the comma delimiter
RenderDoc(d) ==
    LET header ==
            (IF d.root THEN <<>> ELSE <<"i", "t", "e", "m", "s">>)
            \o <<OPEN_BRACKET>> \o NatToStr(d.declared) \o <<CLOSE_BRACKET>>
            \o (IF d.fields = <<>> THEN <<>>
                ELSE <<OPEN_BRACE>> \o Join(d.fields, <<COMMA>>) \o <<CLOSE_BRACE>>)
            \o <<COLON>>
        Line(i) == Spaces(d.indent) \o Join(d.body[i], <<COMMA>>)
        key == IF d.root THEN <<>> ELSE <<"i", "t", "e", "m", "s">>
        values == Join([i \in 1..Len(d.body) |-> d.body[i][1]], <<COMMA>>)
        \* a header whose bracket is not closed, whose length is not a decimal
        \* number, or that has no colon
        broken ==
            key \o <<OPEN_BRACKET>> \o NatToStr(d.declared)
            \o (CASE d.form = "unclosed" -> <<COLON>>
                  [] d.form = "nonnumeric" -> <<"x", CLOSE_BRACKET, COLON>>
                  [] OTHER -> <<CLOSE_BRACKET>>)
        \* a quoted literal as a value, a key, a list item, the cell number
        \* d.declared of an inline array, or of a table row
        Cells == Join([i \in 1..Len(d.fields) |->
                          IF i = d.declared THEN d.body[1][1] ELSE <<"1">>],
                      <<COMMA>>)
        Counted(n, fs) ==
            key \o <<OPEN_BRACKET>> \o NatToStr(n) \o <<CLOSE_BRACKET>> \o fs \o <<COLON>>
        quoted ==
            CASE d.form = "value" ->
                   (IF d.root THEN <<>> ELSE <<"k", COLON, " ">>) \o d.body[1][1]
              [] d.form = "key" ->
                   (IF d.root THEN <<>> ELSE <<"k", COLON, NEWLINE, " ", " ">>)
                   \o d.body[1][1] \o <<COLON, " ", "1">>
              [] d.form = "item" ->
                   Counted(1, <<>>) \o <<NEWLINE>> \o LIST_ITEM_PREFIX \o d.body[1][1]
              [] d.form = "cell" ->
                   Counted(Len(d.fields), <<>>) \o <<" ">> \o Cells
              [] OTHER ->
                   Counted(1, <<OPEN_BRACE>> \o Join(d.fields, <<COMMA>>) \o <<CLOSE_BRACE>>)
                   \o <<NEWLINE, " ", " ">> \o Cells
    IN IF d.form = "inline"
       THEN IF d.body = <<>> THEN header ELSE header \o <<" ">> \o values
       ELSE IF d.form \in {"value", "key", "item", "cell", "row"} THEN quoted
       \* an inline array with as many values as declared, then a key/value
       \* line d.declared levels deep
       ELSE IF d.form = "trailing"
       THEN Counted(Len(d.body), <<>>)
            \o (IF d.body = <<>> THEN <<>> ELSE <<" ">> \o values)
            \o <<NEWLINE>> \o Spaces(2 * d.declared) \o <<"k", COLON, " ", "1">>
       ELSE IF d.form \in {"unclosed", "nonnumeric", "uncoloned"}
       THEN IF d.body = <<>> THEN broken ELSE broken \o <<" ">> \o values
       \* lines without a header, after a key/value line unless at the root
       ELSE IF d.form = "plain"
       THEN Join((IF d.root THEN <<>> ELSE << <<"k", COLON, " ", "1">> >>)
                 \o [i \in 1..Len(d.body) |-> Line(i)], <<NEWLINE>>)
       ELSE Join(<<header>> \o [i \in 1..Len(d.body) |-> Line(i)], <<NEWLINE>>)

InitDecode ==
    /\ pc = "start"
    /\ input \in DocShapes
    /\ opts \in [indent : {2}, strict : BOOLEAN]
    /\ text = RenderDoc(input)
    /\ output = NoOutput

DecodeDocument ==
    /\ pc = "start"
    /\ output' = decode(text, opts)
    /\ pc' = "decoded"
    /\ UNCHANGED <<input, opts, text>>

SpecDecode == InitDecode /\ [][DecodeDocument]_vars

----------------------------------------------------------------------------
(* The unquoted-safety conditions and the patterns, as the specification    *)
(* of the primitive codec words them.                                       *)

\* optional "-", digits, optional "." digits, optional exponent (e or E,
\* optional sign, digits)
NumericPattern(s) ==
    LET body == IF s # <<>> /\ s[1] = "-" THEN Tail(s) ELSE s
        Digits(q) == q # <<>> /\ \A i \in 1..Len(q) : q[i] \in AsciiDigits
        Fraction(q) == q # <<>> /\ q[1] = "." /\ Digits(Tail(q))
        Exponent(q) ==
            /\ q # <<>>
            /\ q[1] \in {"e", "E"}
            /\ \/ Digits(Tail(q))
               \/ Len(q) >= 2 /\ q[2] \in {"+", "-"} /\ Digits(Tail(Tail(q)))
    IN \E a \in 1..Len(body), b \in 1..Len(body) :
          /\ a <= b
          /\ Digits(SubSeq(body, 1, a))
          /\ (a = b \/ Fraction(SubSeq(body, a + 1, b)))
          /\ (b = Len(body) \/ Exponent(SubSeq(body, b + 1, Len(body))))

\* every unquoted-safety condition but those on the delimiter and the pipe
SafeApartFromDelimiter(s) ==
    /\ s # <<>>
    /\ s[1] \notin Whitespace /\ s[Len(s)] \notin Whitespace
    /\ s \notin {<<"t", "r", "u", "e">>, <<"f", "a", "l", "s", "e">>,
                 <<"n", "u", "l", "l">>}
    /\ ~NumericPattern(s)
    /\ ~(Len(s) >= 2 /\ s[1] = "0" /\ \A i \in 1..Len(s) : s[i] \in AsciiDigits)
    /\ \A i \in 1..Len(s) :
          s[i] \notin {":", "\"", "\\", "[", "]", "{", "}", "\n", "\r", "\t"}
    /\ s[1] # "-"

HasChar(s, c) == \E i \in 1..Len(s) : s[i] = c

InQuotes(quoted) ==
    Len(quoted) >= 2 /\ quoted[1] = "\"" /\ quoted[Len(quoted)] = "\""

C5_UnquotedRoundTrip ==
    (pc = "parsed" /\ is_safe_unquoted(input, opts.delimiter))
        => output = OkResult(Val("str", input))

\* C6: parse_primitive_token of an unquoted token gives true, false or null
\* for those words, a number exactly when the token matches the
\* numeric-literal pattern (an int when it has no "." and no exponent), and
\* otherwise the token itself as a string, without an error.
C6_TokenClassification ==
    (pc = "token" /\ input # <<>> /\ input = Strip(input) /\ input[1] # "\"") =>
        IF input = <<"t", "r", "u", "e">> THEN output = OkResult(Val("bool", TRUE))
        ELSE IF input = <<"f", "a", "l", "s", "e">>
        THEN output = OkResult(Val("bool", FALSE))
        ELSE IF input = <<"n", "u", "l", "l">> THEN output = OkResult(Val("null", <<>>))
        ELSE IF NumericPattern(input)
        THEN /\ output.ok
             /\ output.val.t \in {"int", "float"}
             /\ output.val.t = "int" <=>
                    ~(HasChar(input, ".") \/ HasChar(input, "e") \/ HasChar(input, "E"))
        ELSE output = OkResult(Val("str", input))

\* C7: parse_primitive_token of the quoted form of a string returns the
\* string, when the quoted form is the whole token and when it is a cell
\* that parse_delimited_values cut from a delimiter-joined row.
C7_QuoteUnquote ==
    /\ pc = "unquoted" => output = OkResult(Val("str", input))
    /\ pc = "row" =>
          output = OkResult(<<Val("str", <<"a">>), Val("str", input), Val("str", input)>>)

\* a string with the delimiter and a backslash came back from a row
C7_RowCellUnquoted ==
    /\ pc = "row"
    /\ HasChar(input, opts.delimiter)
    /\ HasChar(input, "\\")
    /\ output.ok
    /\ output.val[2] = Val("str", input)

\* C8: encode_key leaves a key bare exactly when it matches
\* [A-Za-z_][A-Za-z0-9_.]*; every other key it renders in double quotes with
\* the string escaping.
C8_BareKeyIffAscii ==
    pc = "key" =>
        IF /\ input # <<>>
           /\ input[1] \in AsciiLetters \cup {"_"}
           /\ \A i \in 2..Len(input) :
                 input[i] \in AsciiLetters \cup AsciiDigits \cup {"_", "."}
        THEN text = input
        ELSE text = <<"\"">> \o escape_string(input) \o <<"\"">>

----------------------------------------------------------------------------
(* Declared and present counts of a document of SpecDecode. *)

\* every row of a tabular body has one cell per field
\* the document holds a well-formed array header and a body of elements
CountedArray == input.form \in {"inline", "tabular", "list"}

RowsFit ==
    input.form = "tabular" =>
        \A i \in 1..Len(input.body) : Len(input.body[i]) = Len(input.fields)

\* the array that decode returned
DecodedArray == IF input.root THEN output.val.v ELSE output.val.v[1][2].v

\* the line after the declared rows of a tabular body
SurplusRow == Join(input.body[input.declared + 1], <<",">>)

FirstIndex(s, c) == CHOOSE i \in 1..Len(s) : s[i] = c /\ \A j \in 1..(i - 1) : s[j] # c

\* the line holds no colon, or holds a comma before its first colon
LooksLikeRow(line) ==
    \/ ~HasChar(line, ":")
    \/ HasChar(line, ",") /\ FirstIndex(line, ",") < FirstIndex(line, ":")

C3_LaxCountMismatchAccepted ==
    (/\ pc = "decoded"
     /\ CountedArray
     /\ ~opts.strict
     /\ (input.declared # Len(input.body) \/ ~RowsFit))
        => output.ok

----------------------------------------------------------------------------
(* Claims on the layout of arrays, under Spec.                              *)

\* the array a claim on arrays looks at: the root array, or the array that
\* is the only member of the root object
ArrayUnderTest ==
    IF input.t = "arr" THEN input.v
    ELSE IF IsSingleMember(input) /\ input.v[1][2].t = "arr" THEN input.v[1][2].v
    ELSE <<>>

TextLines == Split(text, NEWLINE)

\* the eligibility rule in the words of the specification
TabularEligible(arr) ==
    \A i \in 1..Len(arr) :
        /\ arr[i].t = "obj"
        /\ arr[i].v # <<>>
        /\ {arr[i].v[j][1] : j \in 1..Len(arr[i].v)}
              = {arr[1].v[j][1] : j \in 1..Len(arr[1].v)}
        /\ \A j \in 1..Len(arr[i].v) :
              arr[i].v[j][2].t \in {"null", "bool", "int", "float", "str"}

\* a header with a field list, then one row of delimiter-joined cells per
\* element, the cells in the order of the first element's keys
TabularForm ==
    LET arr == ArrayUnderTest
        lines == TextLines
        Cell(i, j) ==
            arr[i].v[CHOOSE m \in 1..Len(arr[i].v) : arr[i].v[m][1] = arr[1].v[j][1]][2]
    IN /\ Len(lines) = Len(arr) + 1
       /\ Contains(lines[1], OPEN_BRACE)
       /\ Len(lines[1]) >= 2
       /\ SubSeq(lines[1], Len(lines[1]) - 1, Len(lines[1])) = <<CLOSE_BRACE, COLON>>
       /\ \A i \in 1..Len(arr) :
             lines[i + 1]
               = <<" ", " ">>
                 \o Join([j \in 1..Len(arr[1].v) |->
                            encode_primitive(Cell(i, j), opts.delimiter)],
                         <<opts.delimiter>>)

\* a header without a field list, then lines among which are list items
ListForm ==
    LET lines == TextLines
    IN /\ Len(lines) >= 2
       /\ Len(lines[1]) >= 2
       /\ SubSeq(lines[1], Len(lines[1]) - 1, Len(lines[1])) = <<CLOSE_BRACKET, COLON>>
       /\ \E i \in 2..Len(lines) : StartsWith(LStrip(lines[i]), LIST_ITEM_MARKER)

\* C11: a non-empty array holding an object is encoded in the tabular form
\* exactly when every element is a non-empty object, all elements have the
\* key set of the first one and every value is a primitive; in every other
\* case it is encoded in the list-item form.
C11_TabularIffEligible ==
    (pc # "start" /\ \E i \in 1..Len(ArrayUnderTest) : ArrayUnderTest[i].t = "obj")
        => IF TabularEligible(ArrayUnderTest) THEN TabularForm /\ ~ListForm
           ELSE ListForm /\ ~TabularForm

\* two objects with the same keys in a different order were written as a table
C11_ReorderedKeysTabular ==
    /\ pc = "encoded"
    /\ Len(ArrayUnderTest) = 2
    /\ TabularEligible(ArrayUnderTest)
    /\ Keys(ArrayUnderTest[1]) # Keys(ArrayUnderTest[2])
    /\ TabularForm

\* C12: an object {items: a} whose only member, under a bare key, is an array
\* of strings round-trips under every delimiter, whatever the number of
\* strings and wherever the strings holding ',', '|' or a tab stand.
C12_InlineStringsRoundTrip ==
    (/\ pc = "decoded"
     /\ IsSingleMember(input)
     /\ IsBareKey(input.v[1][1])
     /\ input.v[1][2].t = "arr"
     /\ \A i \in 1..Len(ArrayUnderTest) : ArrayUnderTest[i].t = "str")
        => RoundTripped

\* the array under test is the root, or stands under a key written bare
PlainlyKeyed == input.t = "arr" \/ IsBareKey(input.v[1][1])

\* C13: a tabular-eligible array of objects round-trips under the tab and
\* the pipe delimiter, in whichever column the cells holding ',' or '|'
\* stand, each cell coming back under its own field.
C13_TabularRoundTrip ==
    (/\ pc = "decoded"
     /\ opts.delimiter \in {TAB, PIPE}
     /\ ArrayUnderTest # <<>>
     /\ PlainlyKeyed
     /\ TabularEligible(ArrayUnderTest))
        => RoundTripped

\* C14: an array of objects in which some member value is a nested object
\* or a nested array, under any key of the object including the first, is
\* encoded in the list-item form and round-trips.
C14_NestedFallbackRoundTrip ==
    (/\ pc = "decoded"
     /\ ArrayUnderTest # <<>>
     /\ PlainlyKeyed
     /\ \A i \in 1..Len(ArrayUnderTest) : ArrayUnderTest[i].t = "obj"
     /\ \E i \in 1..Len(ArrayUnderTest) :
           \E j \in 1..Len(ArrayUnderTest[i].v) :
               ArrayUnderTest[i].v[j][2].t \in {"obj", "arr"})
        => ListForm /\ RoundTripped

\* C15: an array that mixes primitives, objects and arrays as elements
\* round-trips, string elements written in quotes included; a quoted string
\* list item comes back as a string.
C15_MixedArrayRoundTrip ==
    (/\ pc = "decoded"
     /\ PlainlyKeyed
     /\ \E i, j \in 1..Len(ArrayUnderTest) :
           LET Kind(x) == IF x.t \in {"obj", "arr"} THEN x.t ELSE "primitive"
           IN Kind(ArrayUnderTest[i]) # Kind(ArrayUnderTest[j]))
        => RoundTripped

\* the index after the quoted token that opens s at index 1 (i is the scan
\* position), Len(s) + 1 when the quote is not closed
RECURSIVE AfterQuoted(_, _)
AfterQuoted(s, i) ==
    IF i > Len(s) THEN Len(s) + 1
    ELSE IF s[i] = BACKSLASH THEN AfterQuoted(s, i + 2)
    ELSE IF s[i] = DOUBLE_QUOTE THEN i + 1
    ELSE AfterQuoted(s, i + 1)

\* what follows the indentation, the list-item hyphen and the key of a line
AfterKey(line) ==
    LET stripped == LStrip(line)
        item == IF StartsWith(stripped, LIST_ITEM_PREFIX) THEN From(stripped, 3)
                ELSE stripped
        BareEnd == IF \E i \in 1..Len(item) : item[i] \notin WordChars \cup {"."}
                   THEN CHOOSE i \in 1..Len(item) :
                          /\ item[i] \notin WordChars \cup {"."}
                          /\ \A j \in 1..(i - 1) : item[j] \in WordChars \cup {"."}
                   ELSE Len(item) + 1
    IN IF item # <<>> /\ item[1] = DOUBLE_QUOTE
       THEN From(item, AfterQuoted(item, 2))
       ELSE From(item, BareEnd)

\* the bracket segment of a header: '[', '#' exactly when the length marker
\* is on, decimal digits, the delimiter exactly when it is not the comma, ']'
WellFormedBrackets(rest) ==
    LET close == Find(rest, CLOSE_BRACKET, 1)
        inner == SubSeq(rest, 2, close - 1)
        marked == inner # <<>> /\ inner[1] = HASH
        suffixed == inner # <<>> /\ inner[Len(inner)] \in DELIMITERS
        digits == SubSeq(inner, IF marked THEN 2 ELSE 1,
                         IF suffixed THEN Len(inner) - 1 ELSE Len(inner))
    IN /\ close > 0
       /\ marked <=> opts.lengthMarker
       /\ suffixed <=> opts.delimiter # COMMA
       /\ suffixed => inner[Len(inner)] = opts.delimiter
       /\ digits # <<>>
       /\ \A i \in 1..Len(digits) : digits[i] \in AsciiDigits
       /\ Contains(From(rest, close + 1), COLON)

\* C16: every array header encode writes, at the root, under a key, as a
\* list item or as the first field of a list-item object, holds '#' before
\* the length exactly when lengthMarker is on and the delimiter after the
\* length exactly when the delimiter is not the comma.
C16_HeaderFormat ==
    pc # "start" =>
        \A i \in 1..Len(TextLines) :
            LET rest == AfterKey(TextLines[i])
            IN (rest # <<>> /\ rest[1] = OPEN_BRACKET) => WellFormedBrackets(rest)

\* C22: the length marker has no effect on decoding: the text encoded with
\* the marker and the text encoded without it, which differ in the "#" of
\* their headers only, give the same result of decode, be it a value or an
\* error, in strict and in non-strict mode.
C22_LengthMarkerIgnored ==
    (pc = "decoded" /\ opts.lengthMarker) =>
        LET unmarked == encode(input, [opts EXCEPT !.lengthMarker = FALSE])
            Same(o, marked) == marked = decode(unmarked, o)
        IN /\ unmarked # text => HasChar(text, HASH)
           /\ \A strict \in BOOLEAN :
                 LET o == [indent |-> 2, strict |-> strict]
                 IN Same(o, decode(text, o))

\* an array nested in an array was encoded with length markers and decoded
\* to the value that was encoded
C22_MarkedHeadersDecoded ==
    /\ pc = "decoded" /\ opts.lengthMarker
    /\ \E i, j \in 1..Len(TextLines) :
          /\ i < j
          /\ HasChar(TextLines[i], HASH) /\ HasChar(TextLines[j], HASH)
    /\ RoundTripped

\* every leaf of the value is the integer 1, inside an array or an object
RECURSIVE OnlyOnes(_)
OnlyOnes(value) ==
    IF value.t = "arr" THEN \A i \in 1..Len(value.v) : OnlyOnes(value.v[i])
    ELSE IF value.t = "obj" THEN \A i \in 1..Len(value.v) : OnlyOnes(value.v[i][2])
    ELSE value = [t |-> "int", v |-> 1]

\* For line i of the text of such a value: the length its header declares (0
\* without a header) and the number of array elements it renders: 1 for a
\* list item (a hyphen line), 1 for the header of an array nested in a list,
\* 1 for a table row (a line without hyphen and without colon), and the
\* number of cells after an inline header.
LineCounts(i) ==
    LET s == LStrip(TextLines[i])
        hyphen == StartsWith(s, LIST_ITEM_MARKER)
        body == IF StartsWith(s, LIST_ITEM_PREFIX) THEN From(s, 3)
                ELSE IF hyphen THEN <<>> ELSE s
        open == Find(body, OPEN_BRACKET, 1)
        close == IF open = 0 THEN 0 ELSE Find(body, CLOSE_BRACKET, open)
        inner == SubSeq(body, open + 1, close - 1)
        suffixed == inner # <<>> /\ inner[Len(inner)] \in {TAB, PIPE}
        delimiter == IF suffixed THEN inner[Len(inner)] ELSE COMMA
        unmarked == IF inner # <<>> /\ inner[1] = HASH THEN Tail(inner) ELSE inner
        length == IF suffixed THEN SubSeq(unmarked, 1, Len(unmarked) - 1) ELSE unmarked
        rest == Strip(From(body, Find(body, COLON, close) + 1))
    IN [declared |-> IF close > 0 THEN DigitsToNat(length) ELSE 0,
        rendered |->
            (IF hyphen THEN 1 ELSE 0)
            + (IF ~hyphen /\ i > 1 /\ StartsWith(s, <<OPEN_BRACKET>>) THEN 1 ELSE 0)
            + (IF ~hyphen /\ ~HasChar(s, COLON) THEN 1 ELSE 0)
            + (IF close > 0 /\ rest # <<>> THEN Len(Split(rest, delimiter)) ELSE 0)]

\* C28: the encoder drops no element: the lengths declared by the headers of
\* the text add up to the number of elements the text renders (inline
\* cells, table rows, list items and the headers of arrays nested in lists),
\* stated for the values whose leaves are all the integer 1, where every
\* line of the text can be told apart.
C28_NoElementDropped ==
    (pc # "start" /\ input.t \in {"arr", "obj"} /\ OnlyOnes(input)) =>
        LET RECURSIVE Total(_, _)
            Total(i, field) ==
                IF i > Len(TextLines) THEN 0
                ELSE LineCounts(i)[field] + Total(i + 1, field)
        IN Total(1, "declared") = Total(1, "rendered")

----------------------------------------------------------------------------
(* Claims on malformed documents, under SpecDecode.                         *)

\* C17: a line whose header has an opening '[' with no closing ']', or a
\* length that is not a decimal number, or no terminating ':', makes decode
\* fail in strict and in non-strict mode; it is never taken for a key/value
\* line or decoded into a value.
C17_MalformedHeaderFails ==
    (pc = "decoded" /\ input.form \in {"unclosed", "nonnumeric", "uncoloned"})
        => ~output.ok

\* the index of the first double quote of s at or after i that no backslash
\* escapes, 0 when there is none
RECURSIVE ClosingQuote(_, _)
ClosingQuote(s, i) ==
    IF i > Len(s) THEN 0
    ELSE IF s[i] = BACKSLASH THEN ClosingQuote(s, i + 2)
    ELSE IF s[i] = DOUBLE_QUOTE THEN i
    ELSE ClosingQuote(s, i + 1)

\* s[i..close-1] holds a backslash followed by none of n r t \ "
RECURSIVE UnknownEscape(_, _, _)
UnknownEscape(s, i, close) ==
    IF i >= close THEN FALSE
    ELSE IF s[i] = BACKSLASH
    THEN s[i + 1] \notin {"n", "r", "t", BACKSLASH, DOUBLE_QUOTE}
         \/ UnknownEscape(s, i + 2, close)
    ELSE UnknownEscape(s, i + 1, close)

\* no closing quote, characters after the closing quote, or an unknown escape
InvalidLiteral(q) ==
    LET close == ClosingQuote(q, 2)
    IN close = 0 \/ close # Len(q) \/ UnknownEscape(q, 2, close)

\* C18: a quoted value, key, list item, array cell or table cell that has no
\* closing double quote, or characters after the closing quote, or a
\* backslash escape other than the recognised ones, makes decode fail, in
\* strict and in non-strict mode.
C18_InvalidQuotedFails ==
    (/\ pc = "decoded"
     /\ input.form \in {"value", "key", "item", "cell", "row"}
     /\ InvalidLiteral(input.body[1][1]))
        => ~output.ok

\* the number of lines of the text that are not blank
NonBlankLines ==
    Cardinality({i \in 1..Len(Split(text, NEWLINE)) : Strip(Split(text, NEWLINE)[i]) # <<>>})

\* C19: whenever decode returns a value, the cursor has consumed every
\* non-blank line of the text (a text of one line may be read as a primitive
\* without the cursor advancing); a text with a line indented deeper than
\* any open structure, or with lines left over after a root array or a
\* completed array body, makes decode fail.
C19_NoPartialResult ==
    (pc = "decoded" /\ output.ok) =>
        \/ output.index = NonBlankLines
        \/ NonBlankLines = 1 /\ output.val.t \notin {"obj", "arr"}

\* the value decoded for the header of the first line: the root, or the
\* first member of the root object
HeadedValue == IF input.root THEN output.val ELSE output.val.v[1][2]

\* C29: whenever decode succeeds in strict mode, the array decoded for a
\* header has exactly the number of elements the header declares, and every
\* object decoded from a table row has exactly one entry per field of the
\* header, in the order of the fields.
C29_StrictCountsAgree ==
    (/\ pc = "decoded" /\ opts.strict /\ output.ok
     /\ input.form \in {"inline", "tabular", "list", "item", "cell", "row", "trailing"})
        => /\ input.root \/ (output.val.t = "obj" /\ output.val.v # <<>>)
           /\ HeadedValue.t = "arr"
           /\ Len(HeadedValue.v) = LineCounts(1).declared
           /\ input.form \in {"tabular", "row"} =>
                 \A i \in 1..Len(HeadedValue.v) :
                    /\ HeadedValue.v[i].t = "obj"
                    /\ Keys(HeadedValue.v[i]) = input.fields

\* strict decode returned the two objects of a table of two rows and two
\* fields
C29_TableDecoded ==
    /\ pc = "decoded" /\ opts.strict /\ output.ok
    /\ input.form = "tabular" /\ input.declared = 2 /\ Len(input.fields) = 2
    /\ Len(HeadedValue.v) = 2

\* C30: non-strict mode only relaxes strict mode: on every text that decode
\* accepts with strict = true, decode with strict = false returns the same
\* value and leaves the cursor on the same line.
C30_LaxExtendsStrict ==
    (pc = "decoded" /\ opts.strict /\ output.ok) =>
        LET Same(lax) == /\ lax.ok
                         /\ lax.val = output.val
                         /\ lax.index = output.index
        IN Same(decode(text, [opts EXCEPT !.strict = FALSE]))

\* strict decode accepted a list array with as many items as declared
C30_StrictAccepted ==
    /\ pc = "decoded" /\ opts.strict /\ output.ok
    /\ input.form = "list" /\ input.declared = 2 /\ Len(input.body) = 2
    /\ HeadedValue.t = "arr"

\* the non-blank lines of the text, without their indentation
ScannedLines ==
    LET raw == Split(text, NEWLINE)
        RECURSIVE Kept(_)
        Kept(i) == IF i > Len(raw) THEN <<>>
                   ELSE IF Strip(raw[i]) = <<>> THEN Kept(i + 1)
                   ELSE <<LStrip(raw[i])>> \o Kept(i + 1)
    IN Kept(1)

\* "[", an optional "#", a decimal length, an optional tab or pipe, "]",
\* and a colon somewhere after it
KeylessHeader(line) ==
    LET close == Find(line, CLOSE_BRACKET, 1)
        inner == SubSeq(line, 2, close - 1)
        unmarked == IF inner # <<>> /\ inner[1] = HASH THEN Tail(inner) ELSE inner
        length == IF unmarked # <<>> /\ unmarked[Len(unmarked)] \in {TAB, PIPE}
                  THEN SubSeq(unmarked, 1, Len(unmarked) - 1) ELSE unmarked
    IN /\ line # <<>> /\ line[1] = OPEN_BRACKET
       /\ close > 0
       /\ length # <<>> /\ \A i \in 1..Len(length) : length[i] \in AsciiDigits
       /\ \E i \in (close + 1)..Len(line) : line[i] = COLON

\* a key, bare or quoted, directly followed by a colon
KeyValueLine(line) ==
    IF line[1] = DOUBLE_QUOTE
    THEN LET close == ClosingQuote(line, 2)
         IN close > 0 /\ close < Len(line) /\ line[close + 1] = COLON
    ELSE HasChar(line, COLON)

\* C25: decode of a non-empty document returns an array when the first line
\* is an array header without a key (or fails on the body of the array);
\* otherwise, when the document has exactly one non-blank line and that line
\* is not a key/value line, it returns the primitive that line decodes to;
\* in every other case it returns an object or fails.
C25_TopLevelDispatch ==
    pc = "decoded" =>
        LET first == ScannedLines[1]
            Primitive(p) == output.ok = p.ok /\ (p.ok => output.val = p.val)
        IN IF KeylessHeader(first) THEN output.ok => output.val.t = "arr"
           ELSE IF Len(ScannedLines) = 1 /\ ~KeyValueLine(first)
           THEN Primitive(parse_primitive_token(Strip(first)))
           ELSE output.ok => output.val.t = "obj"

\* a document of the one line 42 was decoded to the number
C25_RootNumber ==
    /\ pc = "decoded"
    /\ input.form = "plain" /\ Len(ScannedLines) = 1
    /\ output.ok /\ output.val = [t |-> "int", v |-> 42]

----------------------------------------------------------------------------
(* SpecNormalize: normalize_value applied to a Python int, alone or inside  *)
(* lists and dicts.  The magnitudes of interest lie around 2**53, beyond    *)
(* the integers of the model checker, so an int is held here by its sign    *)
(* and its decimal digits: Val("int", [neg |-> .., digits |-> ..]).         *)

MaxNesting == 2

InitNormalize ==
    LET Magnitudes ==
            {<<"0">>, <<"1">>, <<"4", "2">>,
             \* 2**53 - 1, 2**53, 2**53 + 1, 2**53 + 8
             <<"9","0","0","7","1","9","9","2","5","4","7","4","0","9","9","1">>,
             <<"9","0","0","7","1","9","9","2","5","4","7","4","0","9","9","2">>,
             <<"9","0","0","7","1","9","9","2","5","4","7","4","0","9","9","3">>,
             <<"9","0","0","7","1","9","9","2","5","4","7","4","1","0","0","0">>,
             \* 15 digits, 10**16, 2**64
             <<"9","9","9","9","9","9","9","9","9","9","9","9","9","9","9">>,
             <<"1","0","0","0","0","0","0","0","0","0","0","0","0","0","0","0","0">>,
             <<"1","8","4","4","6","7","4","4","0","7","3","7","0","9","5","5","1","6","1","6">>}
        Ints == {Val("int", [neg |-> n, digits |-> d]) :
                    n \in BOOLEAN, d \in Magnitudes}
               \ {Val("int", [neg |-> TRUE, digits |-> <<"0">>])}
        Wrap(S) == {Val("arr", <<x>>) : x \in S}
                   \cup {Val("arr", <<Val("str", <<"a">>), x>>) : x \in S}
                   \cup {Val("obj", << <<<<"k">>, x>> >>) : x \in S}
        RECURSIVE Nested(_)
        Nested(depth) ==
            IF depth = 0 THEN Ints
            ELSE Nested(depth - 1) \cup Wrap(Nested(depth - 1))
    IN /\ pc = "start"
       /\ input \in Nested(MaxNesting)
       /\ opts = [delimiter |-> DEFAULT_DELIMITER, lengthMarker |-> FALSE]
       /\ text = <<>>
       /\ output = NoOutput

Normalize ==
    /\ pc = "start"
    /\ output' = OkResult(normalize_value(input))
    /\ pc' = "normalized"
    /\ UNCHANGED <<input, opts, text>>

SpecNormalize == InitNormalize /\ [][Normalize]_vars

\* the integer inside a value of SpecNormalize
RECURSIVE Innermost(_)
Innermost(value) ==
    IF value.t = "arr" THEN Innermost(value.v[Len(value.v)])
    ELSE IF value.t = "obj" THEN Innermost(value.v[1][2])
    ELSE value

\* -2**53 <= n <= 2**53, on the sign and digits of n
InSafeRange(n) ==
    LET limit == <<"9","0","0","7","1","9","9","2","5","4","7","4","0","9","9","2">>
        Digit(c) == CHOOSE k \in 0..9 : DigitSeq[k + 1] = c
    IN \/ Len(n.digits) < Len(limit)
       \/ n.digits = limit
       \/ /\ Len(n.digits) = Len(limit)
          /\ \E i \in 1..Len(limit) :
                /\ Digit(n.digits[i]) < Digit(limit[i])
                /\ \A j \in 1..(i - 1) : n.digits[j] = limit[j]

\* C20: the normalizer maps an integer within [-2**53, 2**53] to the same
\* Number, and an integer outside that range to the String of its decimal
\* digits (with its sign), at the root and inside arrays and objects.
C20_BigIntToString ==
    pc = "normalized" =>
        LET n == Innermost(input).v
        IN Innermost(output.val)
             = IF InSafeRange(n) THEN Innermost(input)
               ELSE Val("str", (IF n.neg THEN <<"-">> ELSE <<>>) \o n.digits)

----------------------------------------------------------------------------
(* SpecHost: a caller that normalizes a host value and then normalizes the  *)
(* result, x = normalize_value(normalize_value(x)).  The host values are     *)
(* those of tests/test_normalization.py (None, bools, ints, floats, NaN and *)
(* the infinities, -0.0, Decimals, datetimes, str, bytes and functions,      *)
(* lists, tuples, sets and dicts keyed by str, int, None, bool and float),   *)
(* nested up to MaxNesting.                                                  *)

InitHost ==
    LET Scalars ==
            {Val("null", <<>>), Val("bool", TRUE), Val("int", 0), Val("int", 7),
             Val("float", <<15, -1>>), Val("float", <<0, 0>>),
             Val("float", <<"nan">>), Val("float", <<"inf">>),
             Val("float", <<"-inf">>), Val("float", <<"-0.0">>),
             Val("decimal", <<"nan">>), Val("decimal", <<"inf">>),
             Val("decimal", <<"-inf">>), Val("decimal", <<"-0">>),
             Val("decimal", <<15, -1>>), Val("decimal", <<1, 400>>),
             Val("decimal", <<-1, 400>>), Val("decimal", <<1, -400>>),
             Val("decimal", <<-1, -400>>),
             Val("str", <<"a">>), Val("str", <<"1">>),
             Val("datetime", <<"2", "0", "2", "4", "-", "0", "1", "-", "0", "1",
                               "T", "0", "0", ":", "0", "0", ":", "0", "0">>),
             Val("other", <<>>)}
        Keys2 == {<<Val("str", <<"1">>), Val("int", 1)>>,
                  <<Val("int", 1), Val("str", <<"1">>)>>,
                  <<Val("null", <<>>), Val("bool", FALSE)>>,
                  <<Val("float", <<15, -1>>), Val("str", <<"1", ".", "5">>)>>}
        Wrap(S) == {Val("arr", <<x>>) : x \in S}
                   \cup {Val("tuple", <<Val("str", <<"a">>), x>>) : x \in S}
                   \cup {Val("set", <<x>>) : x \in S}
                   \cup {Val("obj", << <<<<"k">>, x>> >>) : x \in S}
                   \cup {Val("dict", << <<k[1], x>>, <<k[2], Val("int", 2)>> >>) :
                            k \in Keys2, x \in S}
        RECURSIVE Nested(_)
        Nested(depth) ==
            IF depth = 0 THEN Scalars
            ELSE Nested(depth - 1) \cup Wrap(Nested(depth - 1))
    IN /\ pc = "start"
       /\ input \in Nested(MaxNesting)
       /\ opts = [delimiter |-> DEFAULT_DELIMITER, lengthMarker |-> FALSE]
       /\ text = <<>>
       /\ output = NoOutput

\* x = normalize_value(x) on the value normalize_value returned
Renormalize ==
    /\ pc = "normalized"
    /\ input' = output.val
    /\ output' = OkResult(normalize_value(output.val))
    /\ pc' = "renormalized"
    /\ UNCHANGED <<opts, text>>

SpecHost == InitHost /\ [][Normalize \/ Renormalize]_vars

\* a == b of two canonical values, where -0.0 == 0
RECURSIVE PyEquals(_, _)
PyEquals(a, b) ==
    LET Zero(x) == \/ (x.t = "int" /\ x.v = 0)
                   \/ (x.t = "float" /\ x.v \in {<<0, 0>>, <<"-0.0">>})
    IN IF Zero(a) \/ Zero(b) THEN Zero(a) /\ Zero(b)
       ELSE /\ a.t = b.t
            /\ IF a.t = "arr"
               THEN /\ Len(a.v) = Len(b.v)
                    /\ \A i \in 1..Len(a.v) : PyEquals(a.v[i], b.v[i])
               ELSE IF a.t = "obj"
               THEN /\ Len(a.v) = Len(b.v)
                    /\ \A i \in 1..Len(a.v) :
                          \E j \in 1..Len(b.v) :
                             /\ a.v[i][1] = b.v[j][1]
                             /\ PyEquals(a.v[i][2], b.v[j][2])
               ELSE a.v = b.v

\* C21: normalizing a normalized value returns an equal value,
\* normalize_value(normalize_value(x)) == normalize_value(x), for every host
\* value x.
C21_NormalizeIdempotent ==
    pc = "renormalized" => PyEquals(output.val, input)

----------------------------------------------------------------------------
(* SpecCoalesce: the two coalescing functions of decoders.py on the segments *)
(* parse_delimited_values returns for a line (stripped cells, some empty),   *)
(* against the length or the field count of the header.                      *)

MaxSegments == 4
MaxExpected == 3

InitCoalesce ==
    /\ pc = "start"
    /\ input \in [values : SeqsUpTo({<<"a">>, <<"b", "c">>, <<>>}, MaxSegments),
                  expected : 0..MaxExpected,
                  delimiter : DELIMITERS]
    /\ opts = [indent |-> 2, strict |-> TRUE]
    /\ text = <<>>
    /\ output = NoOutput

CoalesceInline ==
    /\ pc = "start"
    /\ output' = OkResult(coalesce_inline_values(input.values, input.expected,
                                                 input.delimiter))
    /\ pc' = "inline"
    /\ UNCHANGED <<input, opts, text>>

CoalesceRow ==
    /\ pc = "start"
    /\ output' = OkResult(coalesce_row_values(input.values, input.expected,
                                              input.delimiter))
    /\ pc' = "row"
    /\ UNCHANGED <<input, opts, text>>

SpecCoalesce == InitCoalesce /\ [][CoalesceInline \/ CoalesceRow]_vars

\* the coalescing rule in the words of the specification: m segments against
\* n expected tokens, m > n >= 1
Coalesced(values, n, delimiter) ==
    LET m == Len(values)
        Rejoin(from, to) == Join(SubSeq(values, from, to), <<delimiter>>)
    IN IF m % n = 0
       THEN [k \in 1..n |-> Rejoin((k - 1) * (m \div n) + 1, k * (m \div n))]
       ELSE [k \in 1..n |-> IF k < n THEN values[k] ELSE Rejoin(n, m)]

\* C23: with m segments and a declared length n, m > n >= 1, the tokens of
\* an inline array are n chunks of m/n segments each, rejoined with the
\* delimiter, when n divides m, and otherwise the first n - 1 segments
\* followed by the remaining ones rejoined; with m <= n the segments are
\* left as they are.
C23_InlineCoalescing ==
    pc = "inline" =>
        LET m == Len(input.values)
            n == input.expected
        IN /\ (m > n /\ n >= 1) =>
                 /\ Len(output.val) = n
                 /\ output.val = Coalesced(input.values, n, input.delimiter)
           /\ m <= n => output.val = input.values

\* four segments against a declared length of two were rejoined in pairs
C23_RejoinedInPairs ==
    /\ pc = "inline"
    /\ Len(input.values) = 4 /\ input.expected = 2
    /\ input.values[1] # input.values[2]
    /\ output.val = <<input.values[1] \o <<input.delimiter>> \o input.values[2],
                      input.values[3] \o <<input.delimiter>> \o input.values[4]>>

\* C24: a table row is coalesced by the rule of the inline array: for every
\* list of segments and every field count, the tokens of the row are the
\* tokens the inline rule gives for the same segments with the field count
\* as the expected length, the evenly divisible case included.
C24_RowCoalescedAsInline ==
    pc = "row" =>
        LET m == Len(input.values)
            n == input.expected
        IN /\ (m > n /\ n >= 1) =>
                 output.val = Coalesced(input.values, n, input.delimiter)
           /\ m <= n => output.val = input.values

----------------------------------------------------------------------------
(* SpecCursor: the LineCursor that decode constructs over the scanned lines *)
(* of a document, and the calls made on it, in any order and any number.    *)
(* input is cursor.lines, output holds cursor.index and what the last call  *)
(* returned: <<>> for None, <<x>> for x.                                    *)

InitCursor ==
    /\ pc = "constructed"
    /\ text \in {RenderDoc(d) : d \in DocShapes}
    /\ opts = DefaultDecodeOptions
    /\ input = to_parsed_lines(text, opts.indent)
    /\ input # <<>>
    /\ output = [index |-> 0, returned |-> <<>>]

Peek ==
    /\ pc' = "peek"
    /\ output' = [output EXCEPT !.returned =
                     IF output.index >= Len(input) THEN <<>>
                     ELSE <<peek(input, output.index)>>]
    /\ UNCHANGED <<input, opts, text>>

Advance ==
    /\ pc' = "advance"
    /\ output' = [index |-> advance(input, output.index),
                  returned |-> IF output.index >= Len(input) THEN <<>>
                               ELSE <<input[output.index + 1]>>]
    /\ UNCHANGED <<input, opts, text>>

AtEnd ==
    /\ pc' = "at_end"
    /\ output' = [output EXCEPT !.returned = <<at_end(input, output.index)>>]
    /\ UNCHANGED <<input, opts, text>>

SpecCursor == InitCursor /\ [][Peek \/ Advance \/ AtEnd]_vars

\* C27: the cursor's index stays within 0..number of scanned lines and never
\* decreases; peek and at_end leave it unchanged (peek returning the line at
\* the index, or nothing at the end; at_end telling whether the index is at
\* the end); advance returns the line at the index and increases the index by
\* exactly one, or at the end returns nothing and leaves the index; and the
\* list of scanned lines is never modified.
C27_CursorInvariant ==
    /\ [](0 <= output.index /\ output.index <= Len(input))
    /\ [][/\ output'.index >= output.index
          /\ input' = input
          /\ input = to_parsed_lines(text, opts.indent)
          /\ pc' = "peek" =>
                /\ output'.index = output.index
                /\ output'.returned = IF output.index = Len(input) THEN <<>>
                                      ELSE <<input[output.index + 1]>>
          /\ pc' = "at_end" =>
                /\ output'.index = output.index
                /\ output'.returned = <<output.index = Len(input)>>
          /\ pc' = "advance" =>
                IF output.index < Len(input)
                THEN /\ output'.index = output.index + 1
                     /\ output'.returned = <<input[output.index + 1]>>
                ELSE /\ output'.index = output.index
                     /\ output'.returned = <<>>]_vars

\* advance was called at the end of a document of several lines
C27_AdvancedAtEnd ==
    /\ pc = "advance"
    /\ Len(input) >= 2
    /\ output.index = Len(input)
    /\ output.returned = <<>>

----------------------------------------------------------------------------
(* SpecDescent: decode run one loop iteration at a time.  input is           *)
(* cursor.lines; output holds cursor.index, the number of steps taken, and   *)
(* the stack of the while loops in progress, innermost last, each            *)
(* [kind, depth, header, count]:                                             *)
(*   "object"   decode_object, depth = base_depth                            *)
(*   "list"     decode_list_array, depth = item_depth, count = len(items)    *)
(*   "tabular"  decode_tabular_array, depth = row_depth, count = len(objects)*)
(*   "fields"   decode_object_from_list_item, depth = follow_depth           *)
(* A machine state m is [pc, index, stack].  The decoded values are not      *)
(* built: of a token, a row or an inline array only whether it parses or     *)
(* raises is kept.                                                           *)

Frame(kind, depth, header) ==
    [kind |-> kind, depth |-> depth, header |-> header, count |-> 0]

\* an exception leaves every loop in progress: no decoder catches it
Raise(m) == [pc |-> "raised", index |-> m.index, stack |-> <<>>]

\* a value is returned to the function whose loop is innermost in m.stack:
\* decode_list_array appends it to items, the object loops store it under its
\* key, and with no loop left decode returns it
Deliver(m) ==
    IF m.stack = <<>> THEN [m EXCEPT !.pc = "returned"]
    ELSE IF m.stack[Len(m.stack)].kind = "list"
    THEN [m EXCEPT !.stack[Len(m.stack)].count = @ + 1]
    ELSE m

\* the innermost loop is left and its function returns what it built
Return(m) == Deliver([m EXCEPT !.stack = SubSeq(@, 1, Len(@) - 1)])

\* decode_array_from_header: an inline array is decoded at once, a tabular or
\* a list array starts its loop
ArrayStep(header, base_depth, options, m) ==
    IF header.inlineValues # <<>> /\ Strip(header.inlineValues[1]) # <<>>
    THEN IF decode_inline_primitive_array(header, header.inlineValues[1], options).ok
         THEN Deliver(m)
         ELSE Raise(m)
    ELSE [m EXCEPT !.stack =
             Append(@, Frame(IF FieldsOf(header) # <<>> THEN "tabular" ELSE "list",
                             base_depth + 1, header))]

\* decode_key_value, the cursor already past the line of `content`
KeyValueStep(content, lines, base_depth, options, m) ==
    LET WithKey(kt) ==
            IF ~kt.ok THEN Raise(m)
            ELSE LET rest == Strip(From(content, kt.val.end))
                 IN IF rest = <<>>
                    THEN IF /\ ~at_end(lines, m.index)
                            /\ peek(lines, m.index).depth > base_depth
                         THEN [m EXCEPT !.stack =
                                  Append(@, Frame("object", base_depth + 1, NoHeader))]
                         ELSE Deliver(m)
                    ELSE IF parse_primitive_token(rest).ok THEN Deliver(m)
                    ELSE Raise(m)
        AfterHeader(array_header) ==
            IF ~array_header.ok THEN Raise(m)
            ELSE IF /\ array_header.val.found
                    /\ array_header.val.key # <<>>
                    /\ array_header.val.key[1] # <<>>
            THEN ArrayStep(array_header.val, base_depth, options, m)
            ELSE WithKey(parse_key_token(content, 1))
    IN AfterHeader(parse_array_header_line(content, DEFAULT_DELIMITER))

\* decode_list_item and, for an object, decode_object_from_list_item up to
\* its loop; follow_depth is base_depth + 1 whatever decode_key_value returns
ListItemStep(lines, base_depth, active_delimiter, options, m) ==
    IF at_end(lines, m.index) THEN Raise(m)
    ELSE
    LET line == peek(lines, m.index)
        next == [m EXCEPT !.index = advance(lines, m.index)]
        after_hyphen == From(line.content, Len(LIST_ITEM_PREFIX) + 1)
        AfterHeader(array_header) ==
            IF ~array_header.ok THEN Raise(m)
            ELSE IF array_header.val.found
            THEN ArrayStep(array_header.val, base_depth, options, next)
            ELSE IF is_object_first_field_after_hyphen(after_hyphen)
            THEN KeyValueStep(after_hyphen, lines, base_depth, options,
                              [next EXCEPT !.stack =
                                  Append(@, Frame("fields", base_depth + 1, NoHeader))])
            ELSE IF parse_primitive_token(after_hyphen).ok THEN Deliver(next)
            ELSE Raise(m)
    IN IF line.content = LIST_ITEM_MARKER THEN Deliver(next)
       ELSE IF Strip(after_hyphen) = <<>> THEN Deliver(next)
       ELSE AfterHeader(IF is_array_header_after_hyphen(after_hyphen)
                        THEN parse_array_header_line(after_hyphen, active_delimiter)
                        ELSE OkResult(NoHeader))

\* the machine state held in the variables, and its innermost loop
Machine == [pc |-> pc, index |-> output.index, stack |-> output.stack]
InnerLoop == output.stack[Len(output.stack)]

Become(m) ==
    /\ pc' = m.pc
    /\ output' = [index |-> m.index, stack |-> m.stack, steps |-> output.steps + 1]
    /\ UNCHANGED <<opts, text>>

InitDescent ==
    /\ pc = "start"
    /\ text \in {RenderDoc(d) : d \in DocShapes}
                \cup {encode(v, [delimiter |-> d, lengthMarker |-> FALSE]) :
                         v \in {w \in RoundTripValues :
                                   w.t = "obj" /\ w.v # <<>> => w.v[1][1] = <<"k">>},
                         d \in DELIMITERS}
    /\ opts \in [indent : {2}, strict : BOOLEAN]
    /\ input = <<>>
    /\ output = [index |-> 0, stack |-> <<>>, steps |-> 0]

\* decode down to decode_value_from_lines and its dispatch
StartDecode ==
    /\ pc = "start"
    /\ LET lines == IF Strip(text) = <<>> THEN <<>>
                    ELSE to_parsed_lines(text, opts.indent)
           m == [pc |-> "looping", index |-> 0, stack |-> <<>>]
           first == peek(lines, 0)
           AfterHeader(header_info) ==
               IF ~header_info.ok THEN Raise(m)
               ELSE IF header_info.val.found
               THEN ArrayStep(header_info.val, 0, opts,
                              [m EXCEPT !.index = advance(lines, 0)])
               ELSE IF Len(lines) = 1 /\ ~is_key_value_line(first)
               THEN IF parse_primitive_token(Strip(first.content)).ok
                    THEN Deliver(m)
                    ELSE Raise(m)
               ELSE [m EXCEPT !.stack = <<Frame("object", 0, NoHeader)>>]
       IN /\ input' = lines
          /\ Become(IF lines = <<>> THEN Deliver(m)
                    ELSE AfterHeader(IF is_root_array_header_line(first)
                                     THEN parse_array_header_line(first.content,
                                                                  DEFAULT_DELIMITER)
                                     ELSE OkResult(NoHeader)))

\* one test and body of the while loop of decode_object
ObjectIteration ==
    /\ pc = "looping"
    /\ InnerLoop.kind = "object"
    /\ LET m == Machine
           base_depth == InnerLoop.depth
           line == peek(input, m.index)
       IN Become(IF at_end(input, m.index) THEN Return(m)
                 ELSE IF line.depth < base_depth THEN Return(m)
                 ELSE IF line.depth = base_depth
                 THEN KeyValueStep(line.content, input, base_depth, opts,
                                   [m EXCEPT !.index = advance(input, m.index)])
                 ELSE Return(m))
    /\ UNCHANGED input

\* one test and body of the while loop of decode_list_array; leaving the
\* loop runs the count test and the surplus test that follow it
ListIteration ==
    /\ pc = "looping"
    /\ InnerLoop.kind = "list"
    /\ LET m == Machine
           header == InnerLoop.header
           item_depth == InnerLoop.depth
           line == peek(input, m.index)
           next == [m EXCEPT !.index = advance(input, m.index)]
           Exit ==
               IF ~assert_expected_count(InnerLoop.count, header.length, opts)
               THEN Raise(m)
               ELSE IF /\ opts.strict
                       /\ ~at_end(input, m.index)
                       /\ line.depth \in {item_depth, item_depth - 1}
                       /\ \/ StartsWith(line.content, LIST_ITEM_PREFIX)
                          \/ line.content = LIST_ITEM_MARKER
               THEN Raise(m)
               ELSE Return(m)
           AfterHeader(nested_header) ==
               IF ~nested_header.ok THEN Raise(m)
               ELSE IF nested_header.val.found
               THEN ArrayStep(nested_header.val, item_depth, opts, next)
               ELSE Exit
       IN Become(IF at_end(input, m.index) \/ InnerLoop.count >= header.length
                 THEN Exit
                 ELSE IF line.depth < item_depth - 1 THEN Exit
                 ELSE IF line.depth \in {item_depth, item_depth - 1}
                 THEN IF line.content = LIST_ITEM_MARKER THEN Deliver(next)
                      ELSE IF StartsWith(line.content, LIST_ITEM_PREFIX)
                      THEN ListItemStep(input, item_depth, header.delimiter, opts, m)
                      ELSE AfterHeader(parse_array_header_line(line.content,
                                                               header.delimiter))
                 ELSE Exit)
    /\ UNCHANGED input

\* one test and body of the while loop of decode_tabular_array; leaving the
\* loop runs the count test and the surplus test that follow it
TabularIteration ==
    /\ pc = "looping"
    /\ InnerLoop.kind = "tabular"
    /\ LET m == Machine
           header == InnerLoop.header
           row_depth == InnerLoop.depth
           line == peek(input, m.index)
           Exit ==
               IF ~assert_expected_count(InnerLoop.count, header.length, opts)
               THEN Raise(m)
               ELSE IF /\ opts.strict
                       /\ ~at_end(input, m.index)
                       /\ line.depth = row_depth
                       /\ ~StartsWith(line.content, LIST_ITEM_PREFIX)
                       /\ \/ ~Contains(line.content, COLON)
                          \/ /\ Contains(line.content, header.delimiter)
                             /\ Find(line.content, header.delimiter, 1)
                                    < Find(line.content, COLON, 1)
               THEN Raise(m)
               ELSE Return(m)
       IN Become(IF at_end(input, m.index) \/ InnerLoop.count >= header.length
                 THEN Exit
                 ELSE IF line.depth < row_depth THEN Exit
                 ELSE IF line.depth = row_depth
                 THEN IF decode_tabular_row(line, header, opts).ok
                      THEN [m EXCEPT !.index = advance(input, m.index),
                                     !.stack[Len(m.stack)].count = @ + 1]
                      ELSE Raise(m)
                 ELSE Exit)
    /\ UNCHANGED input

\* one test and body of the while loop of decode_object_from_list_item
FieldsIteration ==
    /\ pc = "looping"
    /\ InnerLoop.kind = "fields"
    /\ LET m == Machine
           follow_depth == InnerLoop.depth
           line == peek(input, m.index)
       IN Become(IF at_end(input, m.index) THEN Return(m)
                 ELSE IF line.depth < follow_depth THEN Return(m)
                 ELSE IF /\ line.depth = follow_depth
                         /\ ~StartsWith(line.content, LIST_ITEM_PREFIX)
                 THEN KeyValueStep(line.content, input, follow_depth, opts,
                                   [m EXCEPT !.index = advance(input, m.index)])
                 ELSE Return(m))
    /\ UNCHANGED input

NextDescent ==
    \/ StartDecode
    \/ ObjectIteration
    \/ ListIteration
    \/ TabularIteration
    \/ FieldsIteration

SpecDescent == InitDescent /\ [][NextDescent]_vars

\* what is left to do: three for every line ahead of the cursor (a line can
\* open two loops, a list item's fields and its first field's value) and one
\* for every loop in progress
Variant == 3 * (Len(input) - output.index) + Len(output.stack)

\* C26: decode terminates: every iteration of a decoder loop moves the cursor
\* forward by at least one line or leaves its loop (returning to its caller
\* or raising); a run that has not ended has a loop to run; so what is left
\* to do shrinks with every iteration and decode ends within 3n + 2 steps on
\* n lines, with a value or an error, as decode does as a whole, and with the
\* same final cursor index.
C26_DecodeTerminates ==
    /\ [][pc = "looping" =>
            /\ \/ output'.index > output.index
               \/ Len(output'.stack) < Len(output.stack)
               \/ pc' = "raised"
            /\ output'.index >= output.index
            /\ Variant' < Variant]_vars
    /\ [](pc = "looping" => output.stack # <<>>)
    /\ [](pc # "start" => Variant >= 0 /\ output.steps <= 3 * Len(input) + 2)
    /\ [](pc = "returned" => LET Same(r) == r.ok /\ r.index = output.index
                             IN Same(decode(text, opts)))
    /\ [](pc = "raised" => ~decode(text, opts).ok)

\* decode returned at the end of a document of four lines or more that holds
\* a list item and a line nested two levels deep
C26_NestedLoopsEnded ==
    /\ pc = "returned"
    /\ Len(input) >= 4
    /\ output.index = Len(input)
    /\ \E i \in 1..Len(input) : StartsWith(input[i].content, LIST_ITEM_PREFIX)
    /\ \E i \in 1..Len(input) : input[i].depth >= 2

====
